---- MODULE Spec2Model ----
(***************************************************************************)
(* Replica status store (PodStatusCache), endpoint reconciler              *)
(* (PruneByAddresses, GetByFunction) and idle-first selector of faas-netes.*)
(*                                                                         *)
(* A record's (function, namespace) pair is one value, its Function.       *)
(* A *int is a set with at most one element: Nil is the nil pointer and     *)
(* Ptr(k) a pointer to k.  A nil TargetRef is the empty name "".           *)
(* Time is counted in units of five minutes.                               *)
(* The queue's timers run on a second clock in units of 50 ms.             *)
(*                                                                         *)
(* Spec        direct calls of the store: Set and PruneByAddresses          *)
(* SpecPrune   reconciles, claims and releases, each as one step            *)
(* SpecTTL     reconciles and claims without release, with a clock          *)
(* SpecLive    SpecTTL with the clock running and reconciles recurring      *)
(* SpecSelect  two concurrent Select calls, step by step at lock boundaries *)
(* SpecQueue   two Select calls through the request queue and its consumer  *)
(* SpecQueueLive  SpecQueue with the callers scheduled and the clock running*)
(* SpecFull    requests of further callers filling the queue               *)
(* SpecSpawn   two callers creating the function's queue, by statement      *)
(* SpecOutage  reconciles, claims and releases while pod lookups fail       *)
(* SpecList    the pods-status listing while replicas come and go           *)
(* SpecCeiling lookups of the ceiling while deployments are edited          *)
(* SpecCalls   single calls of Set, TryMarkPodBusy and PruneByAddresses     *)
(* SpecCount   busy and idle commands on one key, counted                   *)
(* SpecIdem    a reconcile followed at once by the same reconcile           *)
(* SpecOne     one Select on a store that holds the function's one replica  *)
(* SpecEmpty   Select called with and without addresses                     *)
(* SpecResolve Resolve, Select and release while a replica is replaced      *)
(* SpecLocks   two threads in store calls, step by step at each mutex      *)
(***************************************************************************)
EXTENDS Integers, Sequences, FiniteSets, TLC

\* ------------------------------------------------------------------ bounds
MaxConn == 2        \* cap on active_connections reached by direct Set("busy") calls
MaxTime == 4        \* the clock stops here
MaxClock == 3       \* the millisecond clock stops here (150 ms)
MaxRetried == 0     \* callers outside Procs arrive while no queued request has more retries

\* ------------------------------------------------------- program constants
StuckBusyTTL == 3   \* 15 * time.Minute, in units of five minutes
TryLimit == 3       \* tryCount < 3 in trySelectIdlePod
MaxInt32 == 2147483647
QueueCap == 10      \* make(chan *QueuedRequest, 10)
MaxRetries == 10    \* QueuedRequest.MaxRetries
MaxWaitTime == 2    \* QueuedRequest.MaxWaitTime, 100 * time.Millisecond, in units of 50 ms
OuterDeadline == 3  \* time.After(150 * time.Millisecond), in units of 50 ms

\* ------------------------------------------------------------- universes
Functions == {"f", "g"}
IPs == {"ip1", "ip2"}
PodNames == {"p1", "p2"}
UIDs == {"uA", "uB"}
NoPod == "gone"                      \* Pods(ns).Get(name) returns an error
Commands == {"busy", "idle", "reset", "draining"}
Ceilings == {1, 2}                   \* values of the max_inflight environment variable

Nil == {}
Ptr(k) == {k}
Deref(p) == CHOOSE k \in p : TRUE

Max(a, b) == IF a >= b THEN a ELSE b

\* corev1.EndpointAddress: IP and the name of the optional TargetRef
AddressPool ==
    { [IP |-> "ip1", TargetRef |-> "p1"],
      [IP |-> "ip1", TargetRef |-> ""],
      [IP |-> "ip2", TargetRef |-> "p2"],
      [IP |-> "ip2", TargetRef |-> ""] }

\* endpoint snapshots: address sets with pairwise different IPs
Snapshots ==
    { S \in SUBSET AddressPool : \A a, b \in S : a.IP = b.IP => a = b }

NoKey == <<"", "">>

VARIABLES
    cache,        \* PodStatusCache.cache: key -> PodStatus
    pods,         \* orchestrator: pod name -> UID, or NoPod
    endpoints,    \* orchestrator: function -> current endpoint addresses
    now,          \* wall clock
    panicked,     \* a nil pointer dereference happened
    last,         \* the last store operation and what it was called with
    deployments,  \* orchestrator: function -> max_inflight of its deployment, 0 if none
    maxInflightCache,  \* IdleFirstSelector.maxInflightCache: function -> *int
    sel,          \* the Select call of each caller: its position and locals
    queue,        \* IdleFirstSelector.requestQueue of the function: the channel's buffer
    consumer,     \* the processQueue goroutine: its position and the request in hand
    reply,        \* the ResponseChan of each caller's queued request
    outcome,      \* what each caller's queued Select was called with and returned
    clock,        \* the millisecond clock, in units of 50 ms
    podLocks,     \* PodStatusCache.podLocks: mutex key -> the thread that holds it
    threads,      \* the store call of each thread: its position and locals
    requestQueue  \* IdleFirstSelector.requestQueue and queueMux: the function's entry

storeVars == <<cache, pods, endpoints, now, panicked, last>>
selVars == <<deployments, maxInflightCache, sel>>
queueVars == <<queue, consumer, reply, outcome, clock, requestQueue>>
lockVars == <<podLocks, threads>>

\* ------------------------------------------------------------ the store

\* createKey: podName + "-" + podIP
createKey(podName, podIP) == <<podName, podIP>>

\* clientset.CoreV1().Pods(namespace).Get(name): err != nil
GetPodErr(name) == name \notin PodNames \/ pods[name] = NoPod

\* the UID Set stores: the pod's current UID, "" when the lookup fails
CurrentPodUID(name) == IF GetPodErr(name) THEN "" ELSE pods[name]

\* a claim test that looks at the status only
TryMarkPodBusyNoCeiling(c, podName, podIP) ==
    LET key == createKey(podName, podIP) IN
    IF key \notin DOMAIN c THEN FALSE ELSE c[key].Status # "busy"

\* TryMarkPodBusy: the test under the per-pod lock; nothing is stored
TryMarkPodBusy(c, podName, podIP) ==
    LET key == createKey(podName, podIP) IN
    IF key \notin DOMAIN c
    THEN FALSE
    ELSE ~ ( c[key].Status = "busy"
             \/ ( c[key].MaxInflight # Nil
                  /\ c[key].ActiveConnections >= Deref(c[key].MaxInflight) ) )

\* Set dereferences maxInflight when the key is missing
SetPanics(c, podName, podIP, maxInflight) ==
    createKey(podName, podIP) \notin DOMAIN c /\ maxInflight = Nil

\* a release that does not clamp the counter at zero
SetIdleCountNoClamp(ac) == ac - 1

\* Set, "idle" branch: the counter after a release
SetIdleCount(ac) == Max(ac - 1, 0)

\* a Set that treats "reset" like any other literal: counter kept, status stored
SetValueNoReset(c, podName, status, podIP, function, maxInflight) ==
    LET key == createKey(podName, podIP)
        exists == key \in DOMAIN c
        current == c[key]
        currentMax == IF current.MaxInflight = Nil THEN maxInflight
                      ELSE current.MaxInflight
        activeConnections ==
            IF ~exists THEN 0
            ELSE IF status = "busy" THEN current.ActiveConnections + 1
            ELSE IF status = "idle" THEN SetIdleCount(current.ActiveConnections)
            ELSE current.ActiveConnections
        finalStatus ==
            IF ~exists
            THEN IF 0 >= Deref(maxInflight) THEN "busy" ELSE "idle"
            ELSE IF status = "busy"
                 THEN IF maxInflight # Nil /\ activeConnections >= Deref(currentMax)
                      THEN "busy" ELSE "idle"
            ELSE IF status = "idle" THEN "idle"
            ELSE status
    IN  [ Status |-> finalStatus,
          Timestamp |-> now,
          PodIP |-> podIP,
          Function |-> function,
          PodName |-> podName,
          ActiveConnections |-> activeConnections,
          MaxInflight |-> maxInflight,
          PodUID |-> CurrentPodUID(podName) ]

\* a Set that counts the command also when it creates the record
SetValueCountsOnCreate(c, podName, status, podIP, function, maxInflight) ==
    LET key == createKey(podName, podIP)
        exists == key \in DOMAIN c
        current == c[key]
        currentMax == IF current.MaxInflight = Nil THEN maxInflight
                      ELSE current.MaxInflight
        activeConnections ==
            IF ~exists THEN (IF status = "busy" THEN 1 ELSE 0)
            ELSE IF status = "busy" THEN current.ActiveConnections + 1
            ELSE IF status = "idle" THEN SetIdleCount(current.ActiveConnections)
            ELSE IF status = "reset" THEN 0
            ELSE current.ActiveConnections
        finalStatus ==
            IF ~exists
            THEN IF activeConnections >= Deref(maxInflight) THEN "busy" ELSE "idle"
            ELSE IF status = "busy"
                 THEN IF maxInflight # Nil /\ activeConnections >= Deref(currentMax)
                      THEN "busy" ELSE "idle"
            ELSE IF status = "idle" THEN "idle"
            ELSE IF status = "reset" THEN "idle"
            ELSE status
    IN  [ Status |-> finalStatus,
          Timestamp |-> now,
          PodIP |-> podIP,
          Function |-> function,
          PodName |-> podName,
          ActiveConnections |-> activeConnections,
          MaxInflight |-> maxInflight,
          PodUID |-> CurrentPodUID(podName) ]

\* Set: the PodStatus value it stores under the key
SetValue(c, podName, status, podIP, function, maxInflight) ==
    LET key == createKey(podName, podIP)
        exists == key \in DOMAIN c
        current == c[key]
        currentMax == IF current.MaxInflight = Nil THEN maxInflight
                      ELSE current.MaxInflight
        activeConnections ==
            IF ~exists THEN 0
            ELSE IF status = "busy" THEN current.ActiveConnections + 1
            ELSE IF status = "idle" THEN SetIdleCount(current.ActiveConnections)
            ELSE IF status = "reset" THEN 0
            ELSE current.ActiveConnections
        finalStatus ==
            IF ~exists
            THEN IF 0 >= Deref(maxInflight) THEN "busy" ELSE "idle"
            ELSE IF status = "busy"
                 THEN IF maxInflight # Nil /\ activeConnections >= Deref(currentMax)
                      THEN "busy" ELSE "idle"
            ELSE IF status = "idle" THEN "idle"
            ELSE IF status = "reset" THEN "idle"
            ELSE status
    IN  [ Status |-> finalStatus,
          Timestamp |-> now,
          PodIP |-> podIP,
          Function |-> function,
          PodName |-> podName,
          ActiveConnections |-> activeConnections,
          MaxInflight |-> maxInflight,
          PodUID |-> CurrentPodUID(podName) ]

\* Set: the store after the call (the caller checks SetPanics first)
Set(c, podName, status, podIP, function, maxInflight) ==
    LET key == createKey(podName, podIP) IN
    [ k \in DOMAIN c \cup {key} |->
        IF k = key
        THEN SetValue(c, podName, status, podIP, function, maxInflight)
        ELSE c[k] ]

\* setPodUID: overwrite the UID of an existing record
setPodUID(c, podName, podIP, podUID) ==
    LET key == createKey(podName, podIP) IN
    IF key \in DOMAIN c
    THEN [c EXCEPT ![key].PodUID = podUID]
    ELSE c

\* ------------------------------------------------------- the reconciler

\* refreshAddresses: all addresses of the function's endpoints (nil on error
\* or when there are no subsets)
refreshAddresses(function) == endpoints[function]

AddrIPs(addrs) == { a.IP : a \in addrs }

RecordsOf(c, function) == { k \in DOMAIN c : c[k].Function = function }

IPsOf(c, function) == { c[k].PodIP : k \in RecordsOf(c, function) }

\* a reconcile that keeps the records of vanished endpoints
RemoveStaleNone(c, function, addrs) == c

\* PruneByAddresses step 1: delete the function's records whose IP is not in addrSet
RemoveStale(c, function, addrs) ==
    LET keep == { k \in DOMAIN c :
                    ~ (c[k].Function = function /\ c[k].PodIP \notin AddrIPs(addrs)) }
    IN  [ k \in keep |-> c[k] ]

\* the records the Range scan of step 2 can stop at for one IP
Matching(c, function, ip) ==
    { k \in DOMAIN c : c[k].Function = function /\ c[k].PodIP = ip }

\* one choice of the record found per IP (sync.Map.Range has no fixed order)
FoundChoices(c, function) ==
    { pick \in [IPs -> DOMAIN c \cup {NoKey}] :
        \A ip \in IPs :
            IF Matching(c, function, ip) = {}
            THEN pick[ip] = NoKey
            ELSE pick[ip] \in Matching(c, function, ip) }

\* the stuck-busy test of PruneByAddresses
StuckBusy(pod) == pod.Status = "busy" /\ now - pod.Timestamp > StuckBusyTTL

\* a found branch that takes over the new UID without resetting the record
PruneFoundNoReset(c, function, addr, found) ==
    LET pod == c[found] IN
    IF addr.TargetRef # "" /\ ~GetPodErr(addr.TargetRef)
    THEN setPodUID(c, pod.PodName, addr.IP, pods[addr.TargetRef])
    ELSE c

\* a found branch that releases one request of the record it finds
PruneFoundRelease(c, function, addr, found) ==
    LET pod == c[found] IN
    Set(c, pod.PodName, "idle", addr.IP, function, pod.MaxInflight)

\* PruneByAddresses step 2, found branch, for one address
PruneFound(c, function, addr, found) ==
    LET pod == c[found] IN
    IF addr.TargetRef # ""
    THEN IF ~GetPodErr(addr.TargetRef) /\ pods[addr.TargetRef] # pod.PodUID
         THEN setPodUID(
                  Set(c, pod.PodName, "reset", addr.IP, function, pod.MaxInflight),
                  pod.PodName, addr.IP, pods[addr.TargetRef])
         ELSE IF GetPodErr(addr.TargetRef)
         THEN c
         ELSE IF StuckBusy(pod)
         THEN Set(c, pod.PodName, "reset", addr.IP, function, pod.MaxInflight)
         ELSE c
    ELSE c

\* PruneByAddresses step 2, not-found branch, for one address
PruneMissing(c, function, addr, max_inflight) ==
    LET podName == IF addr.TargetRef # "" THEN addr.TargetRef ELSE addr.IP
        podUID == IF addr.TargetRef # "" THEN CurrentPodUID(podName) ELSE ""
    IN  setPodUID(
            Set(c, podName, "idle", addr.IP, function, Ptr(max_inflight)),
            podName, addr.IP, podUID)

\* PruneByAddresses step 2: the loop over addrSet
RECURSIVE PruneLoop(_, _, _, _, _)
PruneLoop(c, function, addrs, pick, max_inflight) ==
    IF addrs = {}
    THEN c
    ELSE LET addr == CHOOSE a \in addrs : TRUE
             next == IF pick[addr.IP] # NoKey
                     THEN PruneFound(c, function, addr, pick[addr.IP])
                     ELSE PruneMissing(c, function, addr, max_inflight)
         IN  PruneLoop(next, function, addrs \ {addr}, pick, max_inflight)

\* the snapshot PruneByAddresses works on: the caller's, or the refreshed one
\* when the caller passed nil or an empty list
EffectiveAddresses(function, addresses) ==
    IF addresses = {} THEN refreshAddresses(function) ELSE addresses

\* PruneByAddresses: the store after the call, for one choice of found records
PruneByAddresses(c, function, addresses, pick, max_inflight) ==
    LET addrs == EffectiveAddresses(function, addresses) IN
    PruneLoop(RemoveStale(c, function, addrs), function, addrs, pick, max_inflight)

PruneChoices(c, function, addresses) ==
    FoundChoices(RemoveStale(c, function, EffectiveAddresses(function, addresses)),
                 function)

\* ------------------------------------------------- function-wide enumeration

\* the max_inflight variable of the function's pods (they carry the
\* deployment's environment), 0 when it is not set
PodEnvMaxInflight(function) == deployments[function]

\* GetByFunction, found branch, for one address: reset on a changed UID
GetFound(c, function, addr, found) ==
    LET pod == c[found] IN
    IF addr.TargetRef # "" /\ ~GetPodErr(addr.TargetRef)
                           /\ pods[addr.TargetRef] # pod.PodUID
    THEN setPodUID(
             Set(c, pod.PodName, "reset", addr.IP, function, pod.MaxInflight),
             pod.PodName, addr.IP, pods[addr.TargetRef])
    ELSE c

\* GetByFunction, not-found branch: the value of its max_inflight variable
\* after the pod lookup (the variable is shared by all addresses of the call)
GetMissingMax(function, addr, max_inflight) ==
    IF addr.TargetRef # "" /\ ~GetPodErr(addr.TargetRef)
                           /\ PodEnvMaxInflight(function) # 0
    THEN PodEnvMaxInflight(function)
    ELSE max_inflight

\* GetByFunction, not-found branch: a record is created only for an address
\* with a TargetRef
GetMissing(c, function, addr, max_inflight) ==
    IF addr.TargetRef # ""
    THEN setPodUID(
             Set(c, addr.TargetRef, "idle", addr.IP, function,
                 Ptr(GetMissingMax(function, addr, max_inflight))),
             addr.TargetRef, addr.IP, CurrentPodUID(addr.TargetRef))
    ELSE c

\* the PodStatus values of the function's records
StatusesOf(c, function) == { c[k] : k \in RecordsOf(c, function) }

\* GetByFunction step 2: the loop over addrSet, in the order the map yields.
\* seen collects the records the probe is asked about at the end of each
\* iteration, rounds the keys of the function's records at the end of each
\* iteration, where the cache is ranged over and the result appended to
RECURSIVE GetLoop(_, _, _, _, _, _, _)
GetLoop(c, function, order, pick, max_inflight, seen, rounds) ==
    IF order = << >>
    THEN [cache |-> c, seen |-> seen, rounds |-> rounds]
    ELSE LET addr == Head(order)
             found == pick[addr.IP] # NoKey
             next == IF found
                     THEN GetFound(c, function, addr, pick[addr.IP])
                     ELSE GetMissing(c, function, addr, max_inflight)
             carried == IF found THEN max_inflight
                        ELSE GetMissingMax(function, addr, max_inflight)
         IN  GetLoop(next, function, Tail(order), pick, carried,
                     seen \cup StatusesOf(next, function),
                     Append(rounds, RecordsOf(next, function)))

\* the orders in which a set of addresses can be listed
Orders(S) ==
    { o \in [1..Cardinality(S) -> S] :
        \A i, j \in 1..Cardinality(S) : o[i] = o[j] => i = j }

\* GetByFunction: the store after the call and the records it may return
\* (result is any part of seen: the probe decides record by record)
GetByFunction(c, function, order, pick) ==
    GetLoop(RemoveStale(c, function, refreshAddresses(function)),
            function, order, pick, 0, {}, << >>)

\* the result slice of GetByFunction, as the number of times each record was
\* appended; answers[i] are the IPs for which checkPodAvailable is true in
\* the i-th range
Appended(rounds, answers) ==
    LET app == rounds
        times(k) == Cardinality({ i \in 1..Len(app) :
                                    k \in app[i] /\ k[2] \in answers[i] })
        keys == { k \in UNION { app[i] : i \in 1..Len(app) } : times(k) > 0 }
    IN  [k \in keys |-> times(k)]

GetChoices(c, function) ==
    FoundChoices(RemoveStale(c, function, refreshAddresses(function)), function)

\* ------------------------------------------------------------ the selector

\* the addresses of a list, as a set
Range(addresses) == { addresses[i] : i \in 1..Len(addresses) }

\* filterIdlePodsForAddresses
filterIdlePodsForAddresses(podStatuses, addresses, max_inflight) ==
    { pod \in podStatuses :
        /\ pod.Status = "idle"
        /\ pod.ActiveConnections < max_inflight
        /\ pod.PodIP \in AddrIPs(Range(addresses)) }

\* the candidates as the selector uses them: name and IP of each PodStatus
Candidates(podStatuses) ==
    { [PodName |-> pod.PodName, PodIP |-> pod.PodIP] : pod \in podStatuses }

\* removePodFromList
removePodFromList(idlePods, podIP) == { pod \in idlePods : pod.PodIP # podIP }

\* the first index of the address list with this IP (0-based), -1 if none
IndexOf(addresses, podIP) ==
    IF \E i \in 1..Len(addresses) : addresses[i].IP = podIP
    THEN (CHOOSE i \in 1..Len(addresses) :
              /\ addresses[i].IP = podIP
              /\ \A j \in 1..(i - 1) : addresses[j].IP # podIP) - 1
    ELSE -1

\* a selector that claims whatever the probe answered
ProbeIgnored(podIP, answer) == TRUE

\* checkPodAvailable: true only for a non-empty IP whose health endpoint
\* answered 200
checkPodAvailable(podIP, answer) == podIP # "" /\ answer = 200

\* getFunctionMaxInflight: the cached value, else the deployment's variable;
\* Select uses MaxInt32 when the lookup fails
getFunctionMaxInflight(function) ==
    IF maxInflightCache[function] # Nil
    THEN Deref(maxInflightCache[function])
    ELSE IF deployments[function] # 0 THEN deployments[function]
    ELSE MaxInt32

\* getFunctionMaxInflight stores a value it found in the deployment
StoreMaxInflight(function) ==
    IF maxInflightCache[function] = Nil /\ deployments[function] # 0
    THEN [maxInflightCache EXCEPT ![function] = Ptr(deployments[function])]
    ELSE maxInflightCache

Procs == {"s1", "s2"}
Consumer == "q"                      \* the processQueue goroutine of the function
Workers == Procs \cup {Consumer}     \* everyone who runs trySelectIdlePod
HttpAnswers == {200, 503}

NoPodRef == [PodName |-> "", PodIP |-> ""]
NoStatus == [exists |-> FALSE, Function |-> "", MaxInflight |-> Nil]

\* a caller that is not in a Select call
IdleSel ==
    [ pc |-> "idle", function |-> "", addresses |-> << >>, max_inflight |-> 0,
      idlePods |-> {}, selected |-> NoPodRef, answer |-> 0, tryCount |-> 0,
      refresh |-> FALSE, index |-> -1, got |-> NoStatus, incremented |-> FALSE ]

\* the consumer before queueAndWaitForPod has created the queue
NoRequest ==
    [ owner |-> "", Addresses |-> << >>, FunctionName |-> "", StartTime |-> 0,
      RetryCount |-> 0 ]
ConsumerOff == [pc |-> "off", req |-> NoRequest, elapsed |-> 0]

\* the requestQueue map of NewIdleFirstSelector: no entry for the function,
\* queueMux free, no channel made and no processQueue goroutine started
NoQueues == [mux |-> "", exists |-> FALSE, created |-> 0, spawned |-> 0]

\* queueAndWaitForPod under queueMux: the entry is made, and its consumer
\* started, only when the map has none
Registered(r) ==
    IF r.exists
    THEN r
    ELSE [r EXCEPT !.exists = TRUE, !.created = r.created + 1,
                   !.spawned = r.spawned + 1]

\* the threads that call the store, and a mutex nobody holds
LockThreads == {"t1", "t2"}
NoThread == ""

\* the key of a record's mutex in podLocks: createKey(podName, podIP)
PodLock(key) == <<"pod", key>>

\* getFunctionLock: the key "function-" + function + "-" + namespace
getFunctionLock(function) == <<"function", function>>

LockRecords == { <<"p1", "ip1">> }
LockNames ==
    { PodLock(k) : k \in LockRecords } \cup { getFunctionLock(f) : f \in Functions }

\* a call of Set, setPodUID or TryMarkPodBusy: its arguments
NoStoreCall ==
    [ name |-> "", key |-> NoKey, status |-> "", function |-> "",
      maxInflight |-> {}, podUID |-> "" ]

\* a thread outside any call of the store
IdleThread ==
    [ op |-> "", pc |-> "idle", function |-> "", addrs |-> {}, max_inflight |-> 0,
      call |-> NoStoreCall, todo |-> << >>, view |-> << >>, result |-> FALSE ]

\* NewPodStatusCache: no mutex held, no call running
LocksIdle ==
    /\ podLocks = [l \in LockNames |-> NoThread]
    /\ threads = [t \in LockThreads |-> IdleThread]

\* an empty ResponseChan, and a caller that has not been through the queue
NoReply == [Index |-> -1, Error |-> ""]
NoOutcome ==
    [ kind |-> "", start |-> 0, at |-> 0, atCeiling |-> FALSE, freed |-> FALSE,
      missed |-> FALSE, replies |-> 0 ]

\* NewIdleFirstSelector: no queue, no consumer, no request
QueueIdle ==
    /\ queue = << >>
    /\ consumer = ConsumerOff
    /\ reply = [p \in Procs |-> NoReply]
    /\ outcome = [p \in Procs |-> NoOutcome]
    /\ clock = 0
    /\ requestQueue = NoQueues

\* --------------------------------------------------- history of the last call

NoCall ==
    [ op |-> "none", function |-> "", addresses |-> {}, key |-> NoKey,
      status |-> "", existed |-> FALSE, before |-> 0,
      deleted |-> {}, created |-> {}, uidChanged |-> {}, stuck |-> {},
      maxInflight |-> Nil, result |-> FALSE, nBusy |-> 0, nIdle |-> 0,
      prev |-> << >>, listing |-> << >> ]

\* the records a reconcile finds with a stored UID other than the orchestrator's
\* UID for the endpoint's target replica
UIDChanged(c, addrs, pick) ==
    { pick[a.IP] : a \in { b \in addrs :
        /\ pick[b.IP] # NoKey
        /\ b.TargetRef # ""
        /\ ~GetPodErr(b.TargetRef)
        /\ pods[b.TargetRef] # c[pick[b.IP]].PodUID } }

\* the largest counter among the records keys
MaxCount(c, keys) ==
    IF keys = {} THEN 0
    ELSE LET k == CHOOSE x \in keys :
                    \A y \in keys : c[x].ActiveConnections >= c[y].ActiveConnections
         IN  c[k].ActiveConnections

\* the function's records in the snapshot that are busy for longer than the TTL
Stuck(c, function, addrs) ==
    { k \in RecordsOf(c, function) :
        c[k].PodIP \in AddrIPs(addrs) /\ StuckBusy(c[k]) }

\* ------------------------------------------------ the store, call by call

SetKeys == { <<"p1", "ip1">>, <<"ip1", "ip1">> }
SetCeilings == { Nil, Ptr(1), Ptr(2) }
SetSnapshots == { S \in Snapshots : AddrIPs(S) \subseteq {"ip1"} }

\* the orchestrator's state is an input: any pod table, any endpoints
InitStore(podNames, snapshots) ==
    /\ cache = << >>
    /\ pods \in { t \in [PodNames -> UIDs \cup {NoPod}] :
                     \A n \in PodNames \ podNames : t[n] = "uA" }
    /\ endpoints \in { e \in [Functions -> snapshots] : e["g"] = {} }
    /\ now = 0
    /\ panicked = FALSE
    /\ last = NoCall
    /\ deployments = [f \in Functions |-> 0]
    /\ maxInflightCache = [f \in Functions |-> Nil]
    /\ sel = [p \in Workers |-> IdleSel]
    /\ QueueIdle
    /\ LocksIdle

SetPods == {"p1"}
SetFunctions == {"f"}

Init == InitStore(SetPods, {{}})

\* a direct call of PodStatusCache.Set
SetOp ==
    \E key \in SetKeys, status \in Commands, function \in SetFunctions,
       maxInflight \in SetCeilings :
        /\ ~panicked
        /\ (status = "busy" /\ key \in DOMAIN cache)
               => cache[key].ActiveConnections < MaxConn
        /\ IF SetPanics(cache, key[1], key[2], maxInflight)
           THEN panicked' = TRUE /\ cache' = cache
           ELSE /\ cache' = Set(cache, key[1], status, key[2], function, maxInflight)
                /\ panicked' = panicked
        /\ last' = [NoCall EXCEPT !.op = "Set", !.key = key, !.status = status,
                                  !.function = function,
                                  !.existed = (key \in DOMAIN cache),
                                  !.before = IF key \in DOMAIN cache
                                             THEN cache[key].ActiveConnections
                                             ELSE 0]
        /\ UNCHANGED <<pods, endpoints, now>>
        /\ UNCHANGED <<selVars, queueVars, lockVars>>

\* a call of PodStatusCache.PruneByAddresses
PruneCall(function, addresses, max_inflight) ==
    \E pick \in PruneChoices(cache, function, addresses) :
        LET addrs == EffectiveAddresses(function, addresses)
            stale == RemoveStale(cache, function, addrs)
        IN  /\ cache' = PruneByAddresses(cache, function, addresses, pick, max_inflight)
            /\ last' = [NoCall EXCEPT !.op = "PruneByAddresses",
                                      !.function = function,
                                      !.addresses = addresses,
                                      !.deleted = DOMAIN cache \ DOMAIN stale,
                                      !.created = { ip \in AddrIPs(addrs) :
                                                      pick[ip] = NoKey },
                                      !.before = MaxCount(stale,
                                                   UIDChanged(stale, addrs, pick)),
                                      !.uidChanged = UIDChanged(stale, addrs, pick),
                                      !.stuck = Stuck(stale, function, addrs)]

PruneOp ==
    \E function \in SetFunctions, addresses \in SetSnapshots, max_inflight \in Ceilings :
        /\ ~panicked
        /\ PruneCall(function, addresses, max_inflight)
        /\ UNCHANGED <<pods, endpoints, now, panicked>>
        /\ UNCHANGED <<selVars, queueVars, lockVars>>

\* the orchestrator replaces, loses or restores a pod
PodChangeOf(podNames) ==
    \E name \in podNames, uid \in UIDs \cup {NoPod} :
        /\ pods[name] # uid
        /\ pods' = [pods EXCEPT ![name] = uid]
        /\ last' = NoCall
        /\ UNCHANGED <<cache, endpoints, now, panicked>>
        /\ UNCHANGED <<selVars, queueVars, lockVars>>

PodChange == PodChangeOf(SetPods)

Next == SetOp \/ PruneOp \/ PodChange

vars == <<cache, pods, endpoints, now, panicked, last, deployments, maxInflightCache, sel,
          queue, consumer, reply, outcome, clock, podLocks, threads, requestQueue>>

Spec == Init /\ [][Next]_vars

\* ------------------------------------------- reconciliation, call by call

\* MarkPodBusy whose Set is lost
MarkPodSetLost(c, podName, podIP, status, got) == c

\* MarkPodBusy / MarkPodIdle, second half: Set with the function and ceiling of
\* the PodStatus that Get returned
MarkPodSet(c, podName, podIP, status, got) ==
    Set(c, podName, status, podIP, got.Function, got.MaxInflight)

\* FunctionLookup.MarkPodBusy with nothing running between its Get and its Set
MarkPodBusy(c, podName, podIP) ==
    LET key == createKey(podName, podIP) IN
    IF key \in DOMAIN c THEN MarkPodSet(c, podName, podIP, "busy", c[key]) ELSE c

\* FunctionLookup.MarkPodIdle with nothing running between its Get and its Set
MarkPodIdle(c, podName, podIP) ==
    LET key == createKey(podName, podIP) IN
    IF key \in DOMAIN c THEN MarkPodSet(c, podName, podIP, "idle", c[key]) ELSE c

PrunePods == {"p1"}
PruneEndpoints ==
    { {}, {[IP |-> "ip1", TargetRef |-> "p1"]},
      {[IP |-> "ip1", TargetRef |-> ""], [IP |-> "ip2", TargetRef |-> "p2"]} }

PruneSnapshots ==
    { S \in Snapshots : [IP |-> "ip2", TargetRef |-> ""] \notin S }
PruneCeilings == {2}

InitPrune == InitStore(PrunePods, PruneEndpoints)

\* a reconcile of one function against a caller-supplied snapshot
Reconcile ==
    \E function \in Functions, addresses \in PruneSnapshots,
       max_inflight \in PruneCeilings :
        /\ PruneCall(function, addresses, max_inflight)
        /\ UNCHANGED <<pods, endpoints, now, panicked>>
        /\ UNCHANGED <<selVars, queueVars, lockVars>>

\* a selector claims a replica: TryMarkPodBusy, then MarkPodBusy
ClaimOp ==
    \E key \in DOMAIN cache :
        /\ TryMarkPodBusy(cache, key[1], key[2])
        /\ cache' = MarkPodBusy(cache, key[1], key[2])
        /\ last' = [NoCall EXCEPT !.op = "MarkPodBusy", !.key = key]
        /\ UNCHANGED <<pods, endpoints, now, panicked>>
        /\ UNCHANGED <<selVars, queueVars, lockVars>>

\* the release callback of a finished request: MarkPodIdle
ReleaseOp ==
    \E key \in DOMAIN cache :
        /\ cache[key].ActiveConnections > 0
        /\ cache' = MarkPodIdle(cache, key[1], key[2])
        /\ last' = [NoCall EXCEPT !.op = "MarkPodIdle", !.key = key]
        /\ UNCHANGED <<pods, endpoints, now, panicked>>
        /\ UNCHANGED <<selVars, queueVars, lockVars>>

PrunePodChange == PodChangeOf(PrunePods)

NextPrune == Reconcile \/ ClaimOp \/ ReleaseOp \/ PrunePodChange

SpecPrune == InitPrune /\ [][NextPrune]_vars

\* ------------------------------------------------ reconciliation and time

TTLPods == {"p1"}
TTLFunctions == {"f"}
TTLSnapshots == { S \in Snapshots : AddrIPs(S) \subseteq {"ip1"} }

InitTTL == InitStore(TTLPods, {{}})

\* five minutes pass
Tick ==
    /\ now < MaxTime
    /\ now' = now + 1
    /\ last' = NoCall
    /\ UNCHANGED <<cache, pods, endpoints, panicked>>
    /\ UNCHANGED <<selVars, queueVars, lockVars>>

\* a reconcile of the function, as every Select starts with
TTLReconcile ==
    \E function \in TTLFunctions, addresses \in TTLSnapshots,
       max_inflight \in Ceilings :
        /\ PruneCall(function, addresses, max_inflight)
        /\ UNCHANGED <<pods, endpoints, now, panicked>>
        /\ UNCHANGED <<selVars, queueVars, lockVars>>

TTLPodChange == PodChangeOf(TTLPods)

\* claims whose release callback never comes
NextTTL == TTLReconcile \/ ClaimOp \/ Tick \/ TTLPodChange

SpecTTL == InitTTL /\ [][NextTTL]_vars

\* the same, with the clock running and reconciles recurring
SpecLive ==
    /\ InitTTL
    /\ [][NextTTL]_vars
    /\ WF_vars(Tick)
    /\ WF_vars(TTLReconcile)

\* ------------------------------------------------- concurrent Select calls

SelFunctions == {"f"}
SelCeilings == {1, 2}
SelEndpoints ==
    { {[IP |-> "ip1", TargetRef |-> "p1"]},
      {[IP |-> "ip2", TargetRef |-> "p2"]},
      {[IP |-> "ip1", TargetRef |-> "p1"], [IP |-> "ip2", TargetRef |-> "p2"]} }

InitSelect ==
    /\ cache = << >>
    /\ pods = [n \in PodNames |-> "uA"]
    /\ endpoints \in { e \in [Functions -> SelEndpoints \cup {{}}] :
                         e["g"] = {} /\ e["f"] # {} }
    /\ now = 0
    /\ panicked = FALSE
    /\ last = NoCall
    /\ deployments \in { d \in [Functions -> SelCeilings \cup {0}] :
                           d["g"] = 0 /\ d["f"] # 0 }
    /\ maxInflightCache = [f \in Functions |-> Nil]
    /\ sel = [p \in Workers |-> IdleSel]
    /\ QueueIdle
    /\ LocksIdle

\* Resolve reads the function's endpoints and calls Select, which looks up
\* the ceiling
SelectStart(p) ==
    \E function \in SelFunctions :
    \E addresses \in Orders(endpoints[function]) :
        /\ sel[p].pc = "idle"
        /\ addresses # << >>
        /\ sel' = [sel EXCEPT ![p] =
                     [IdleSel EXCEPT !.pc = "prune",
                                     !.function = function,
                                     !.addresses = addresses,
                                     !.max_inflight = getFunctionMaxInflight(function)]]
        /\ maxInflightCache' = StoreMaxInflight(function)
        /\ UNCHANGED <<cache, pods, endpoints, now, panicked, last, deployments, queueVars, lockVars>>

\* Select step 1, and the refresh after a lost claim: PruneByAddresses with
\* the caller's address list
SelectPrune(p) ==
    /\ sel[p].pc = "prune"
    /\ \E pick \in PruneChoices(cache, sel[p].function, Range(sel[p].addresses)) :
           cache' = PruneByAddresses(cache, sel[p].function,
                                     Range(sel[p].addresses), pick,
                                     sel[p].max_inflight)
    /\ sel' = [sel EXCEPT ![p].pc = "get"]
    /\ last' = NoCall
    /\ UNCHANGED <<pods, endpoints, now, panicked, deployments, maxInflightCache, queueVars, lockVars>>

\* trySelectIdlePod: GetByFunction and filterIdlePodsForAddresses; after a lost
\* claim the loop body ends with removePodFromList and tryCount++
SelectGet(p) ==
    /\ sel[p].pc = "get"
    /\ \E pick \in GetChoices(cache, sel[p].function) :
       \E order \in Orders(refreshAddresses(sel[p].function)) :
           LET got == GetByFunction(cache, sel[p].function, order, pick) IN
           \E podStatuses \in SUBSET got.seen :
               LET idlePods == Candidates(
                       filterIdlePodsForAddresses(podStatuses, sel[p].addresses,
                                                  sel[p].max_inflight))
               IN  /\ cache' = got.cache
                   /\ sel' = [sel EXCEPT
                         ![p].pc = "loop",
                         ![p].refresh = FALSE,
                         ![p].idlePods =
                             IF sel[p].refresh
                             THEN removePodFromList(idlePods, sel[p].selected.PodIP)
                             ELSE idlePods,
                         ![p].tryCount =
                             IF sel[p].refresh THEN sel[p].tryCount + 1 ELSE 0]
    /\ last' = NoCall
    /\ UNCHANGED <<pods, endpoints, now, panicked, deployments, maxInflightCache, queueVars, lockVars>>

\* an iteration that probes whatever the number of tries
SelectProbeAgain(p) ==
    /\ sel[p].pc = "loop"
    /\ sel[p].idlePods # {}
    /\ \E selected \in sel[p].idlePods :
           sel' = [sel EXCEPT ![p].selected = selected,
                              ![p].answer = 503,
                              ![p].tryCount = sel[p].tryCount + 1]
    /\ UNCHANGED <<storeVars, deployments, maxInflightCache, queueVars, lockVars>>

\* trySelectIdlePod: one iteration up to the probe
SelectProbe(p) ==
    /\ sel[p].pc = "loop"
    /\ sel[p].tryCount < TryLimit
    /\ sel[p].idlePods # {}
    /\ \E selected \in sel[p].idlePods, answer \in HttpAnswers :
           LET i == IndexOf(sel[p].addresses, selected.PodIP) IN
           IF checkPodAvailable(selected.PodIP, answer) /\ i >= 0
           THEN sel' = [sel EXCEPT ![p].pc = "try",
                                   ![p].selected = selected,
                                   ![p].answer = answer,
                                   ![p].index = i]
           ELSE sel' = [sel EXCEPT
                          ![p].selected = selected,
                          ![p].answer = answer,
                          ![p].idlePods = removePodFromList(sel[p].idlePods,
                                                            selected.PodIP),
                          ![p].tryCount = sel[p].tryCount + 1]
    /\ UNCHANGED <<storeVars, deployments, maxInflightCache, queueVars, lockVars>>

\* trySelectIdlePod: TryMarkPodBusy on the probed candidate
SelectTry(p) ==
    /\ sel[p].pc = "try"
    /\ IF TryMarkPodBusy(cache, sel[p].selected.PodName, sel[p].selected.PodIP)
       THEN sel' = [sel EXCEPT ![p].pc = "mark"]
       ELSE sel' = [sel EXCEPT ![p].pc = "prune", ![p].refresh = TRUE]
    /\ UNCHANGED <<storeVars, deployments, maxInflightCache, queueVars, lockVars>>

\* MarkPodBusy, first half: Get; without a record the call returns and
\* trySelectIdlePod returns the index
SelectMarkGet(p) ==
    LET key == createKey(sel[p].selected.PodName, sel[p].selected.PodIP) IN
    /\ sel[p].pc = "mark"
    /\ IF key \in DOMAIN cache
       THEN sel' = [sel EXCEPT ![p].pc = "set",
                               ![p].got = [exists |-> TRUE,
                                           Function |-> cache[key].Function,
                                           MaxInflight |-> cache[key].MaxInflight]]
       ELSE sel' = [sel EXCEPT ![p].pc = "held"]
    /\ UNCHANGED <<storeVars, deployments, maxInflightCache, queueVars, lockVars>>

\* MarkPodBusy, second half: Set("busy"); trySelectIdlePod returns the index
SelectMarkSet(p) ==
    LET podName == sel[p].selected.PodName
        podIP == sel[p].selected.PodIP
        key == createKey(podName, podIP)
    IN  /\ sel[p].pc = "set"
        /\ ~panicked
        /\ IF SetPanics(cache, podName, podIP, sel[p].got.MaxInflight)
           THEN /\ panicked' = TRUE
                /\ cache' = cache
                /\ sel' = [sel EXCEPT ![p].pc = "panic"]
           ELSE /\ panicked' = panicked
                /\ cache' = MarkPodSet(cache, podName, podIP, "busy", sel[p].got)
                /\ sel' = [sel EXCEPT ![p].pc = "held",
                                      ![p].incremented = (key \in DOMAIN cache)]
        /\ last' = NoCall
        /\ UNCHANGED <<pods, endpoints, now, deployments, maxInflightCache, queueVars, lockVars>>

\* the loop of trySelectIdlePod ends without a claim: Select goes on to
\* queueAndWaitForPod
SelectQueue(p) ==
    /\ sel[p].pc = "loop"
    /\ ~ (sel[p].tryCount < TryLimit /\ sel[p].idlePods # {})
    /\ sel' = [sel EXCEPT ![p].pc = "queued"]
    /\ UNCHANGED <<storeVars, deployments, maxInflightCache, queueVars, lockVars>>

\* queueAndWaitForPod: the outer deadline passes before the consumer replies
\* and Select returns an error
SelectTimeout(p) ==
    /\ sel[p].pc = "queued"
    /\ sel' = [sel EXCEPT ![p] = IdleSel]
    /\ UNCHANGED <<storeVars, deployments, maxInflightCache, queueVars, lockVars>>

\* the request that Resolve routed is finished: the release callback calls
\* MarkPodIdle with the pod name and IP of the resolved URL
SelectRelease(p) ==
    LET addr == sel[p].addresses[sel[p].index + 1] IN
    /\ sel[p].pc = "held"
    /\ cache' = MarkPodIdle(cache, addr.TargetRef, addr.IP)
    /\ sel' = [sel EXCEPT ![p] = IdleSel]
    /\ last' = NoCall
    /\ UNCHANGED <<pods, endpoints, now, panicked, deployments, maxInflightCache, queueVars, lockVars>>

\* the orchestrator replaces the function's endpoints
EndpointChange ==
    \E function \in SelFunctions, S \in SelEndpoints :
        /\ endpoints[function] # S
        /\ endpoints' = [endpoints EXCEPT ![function] = S]
        /\ last' = NoCall
        /\ UNCHANGED <<cache, pods, now, panicked, selVars, queueVars, lockVars>>

SelectStep(p) ==
    \/ SelectStart(p)
    \/ SelectPrune(p)
    \/ SelectGet(p)
    \/ SelectProbe(p)
    \/ SelectTry(p)
    \/ SelectMarkGet(p)
    \/ SelectMarkSet(p)
    \/ SelectQueue(p)
    \/ SelectTimeout(p)
    \/ SelectRelease(p)

NextSelect == (\E p \in Procs : SelectStep(p)) \/ EndpointChange

SpecSelect == InitSelect /\ [][NextSelect]_vars

\* ------------------------------------------ Select without any address
\* Select called with an empty address list: Resolve never does so, it returns
\* before the call when the subset has no address; any other caller may.
SelectEmpty(p) ==
    \E function \in SelFunctions :
        /\ sel[p].pc = "idle"
        /\ sel' = [sel EXCEPT ![p] =
                     [IdleSel EXCEPT !.pc = "prune",
                                     !.function = function,
                                     !.addresses = << >>,
                                     !.max_inflight = getFunctionMaxInflight(function)]]
        /\ maxInflightCache' = StoreMaxInflight(function)
        /\ UNCHANGED <<cache, pods, endpoints, now, panicked, last, deployments, queueVars, lockVars>>

EmptyCaller == "s1"

NextEmpty == SelectEmpty(EmptyCaller) \/ SelectStep(EmptyCaller) \/ EndpointChange

SpecEmpty == InitSelect /\ [][NextEmpty]_vars

\* ------------------------------------------------- the request queue
\* Select calls that go through queueAndWaitForPod, and the processQueue
\* goroutine.  One function with one replica whose ceiling is 1.

QueueFunction == "f"
QueueEndpoints == { [IP |-> "ip1", TargetRef |-> "p1"] }

InitQueue ==
    /\ cache = << >>
    /\ pods = [n \in PodNames |-> "uA"]
    /\ endpoints = [f \in Functions |->
                       IF f = QueueFunction THEN QueueEndpoints ELSE {}]
    /\ now = 0
    /\ panicked = FALSE
    /\ last = NoCall
    /\ deployments = [f \in Functions |-> IF f = QueueFunction THEN 1 ELSE 0]
    /\ maxInflightCache = [f \in Functions |-> Nil]
    /\ sel = [p \in Workers |-> IdleSel]
    /\ QueueIdle
    /\ LocksIdle

\* a send on the queue that takes everything: the channel without its capacity
OfferUnbounded(q, req) == [queue |-> Append(q, req), ok |-> TRUE]

\* `select { case queue <- req: ... default: ... }`: a send that does not block
Offer(q, req) ==
    IF Len(q) < QueueCap
    THEN [queue |-> Append(q, req), ok |-> TRUE]
    ELSE [queue |-> q, ok |-> FALSE]

\* `ResponseChan <- QueueResult{...}`; a request of a caller outside Procs has
\* a channel nobody in the model reads
Send(r, owner, result) ==
    IF owner \in Procs THEN [r EXCEPT ![owner] = result] ELSE r

\* the sends on the caller's ResponseChan so far, one more
Replied(o, owner) ==
    IF owner \in Procs THEN [o EXCEPT ![owner].replies = @ + 1] ELSE o

\* the function has records and each of them is busy or at its ceiling
AllAtCeiling(c, function) ==
    /\ RecordsOf(c, function) # {}
    /\ \A k \in RecordsOf(c, function) :
           \/ c[k].Status = "busy"
           \/ ( /\ c[k].MaxInflight # Nil
                /\ c[k].ActiveConnections >= Deref(c[k].MaxInflight) )

\* the caller is inside a Select call
InSelect(p) == sel[p].pc \notin {"idle", "held"}

\* the errors that queueAndWaitForPod returns for a request it has enqueued
TimeoutErrors ==
    { "request timeout", "request timeout after 150ms",
      "no idle pods became available" }
QueueErrors ==
    TimeoutErrors \cup
    { "max retries exceeded", "queue full, cannot requeue",
      "invalid pod index returned" }

\* trySelectIdlePod has run out of candidates or of tries
LoopExhausted(p) ==
    /\ sel[p].pc = "loop"
    /\ ~ (sel[p].tryCount < TryLimit /\ sel[p].idlePods # {})

\* Resolve reads the endpoints and calls Select; each caller calls once
QStart(p) ==
    \E addresses \in Orders(endpoints[QueueFunction]) :
        /\ sel[p].pc = "idle"
        /\ outcome[p].kind = ""
        /\ addresses # << >>
        /\ clock + OuterDeadline <= MaxClock
        /\ sel' = [sel EXCEPT ![p] =
                     [IdleSel EXCEPT !.pc = "prune",
                                     !.function = QueueFunction,
                                     !.addresses = addresses,
                                     !.max_inflight =
                                         getFunctionMaxInflight(QueueFunction)]]
        /\ maxInflightCache' = StoreMaxInflight(QueueFunction)
        /\ outcome' = [outcome EXCEPT ![p] =
                         [NoOutcome EXCEPT
                            !.start = clock,
                            !.atCeiling = AllAtCeiling(cache, QueueFunction)]]
        /\ UNCHANGED <<lockVars, requestQueue, storeVars, deployments, queue, consumer, reply, clock>>

\* queueAndWaitForPod up to the send: the queue and its consumer are created
\* on first use, the request is built and offered to the queue
QEnqueue(p) ==
    LET req == [owner |-> p, Addresses |-> sel[p].addresses,
                FunctionName |-> sel[p].function, StartTime |-> clock,
                RetryCount |-> 0]
        sent == Offer(queue, req)
    IN  /\ LoopExhausted(p)
        /\ queue' = sent.queue
        /\ requestQueue' = Registered(requestQueue)
        /\ consumer' = IF consumer.pc = "off"
                       THEN [consumer EXCEPT !.pc = "recv"]
                       ELSE consumer
        /\ IF sent.ok
           THEN /\ sel' = [sel EXCEPT ![p] =
                             [IdleSel EXCEPT !.pc = "waiting",
                                             !.function = sel[p].function,
                                             !.addresses = sel[p].addresses]]
                /\ outcome' = [outcome EXCEPT ![p].start = clock]
           ELSE /\ sel' = [sel EXCEPT ![p] = IdleSel]
                /\ outcome' = [outcome EXCEPT ![p].start = clock,
                                              ![p].kind = "request queue full"]
        /\ UNCHANGED <<lockVars, storeVars, deployments, maxInflightCache, reply, clock>>

\* queueAndWaitForPod: the consumer's result arrives on ResponseChan
QReceive(p) ==
    /\ sel[p].pc = "waiting"
    /\ reply[p] # NoReply
    /\ IF reply[p].Error = ""
       THEN /\ sel' = [sel EXCEPT ![p].pc = "held", ![p].index = reply[p].Index]
            /\ outcome' = [outcome EXCEPT ![p].kind = "index",
                                          ![p].at = clock - outcome[p].start]
       ELSE /\ sel' = [sel EXCEPT ![p] = IdleSel]
            /\ outcome' = [outcome EXCEPT ![p].kind = reply[p].Error,
                                          ![p].at = clock - outcome[p].start]
    /\ reply' = [reply EXCEPT ![p] = NoReply]
    /\ UNCHANGED <<lockVars, requestQueue, storeVars, deployments, maxInflightCache, queue, consumer, clock>>

\* a wait on ResponseChan alone, without the timer
QWaitForReply(p) == FALSE /\ UNCHANGED vars

\* queueAndWaitForPod: time.After(150 ms) fires first
QOuterTimeout(p) ==
    /\ sel[p].pc = "waiting"
    /\ clock - outcome[p].start >= OuterDeadline
    /\ sel' = [sel EXCEPT ![p] = IdleSel]
    /\ outcome' = [outcome EXCEPT ![p].kind = "request timeout after 150ms",
                                  ![p].at = clock - outcome[p].start]
    /\ UNCHANGED <<lockVars, requestQueue, storeVars, deployments, maxInflightCache, queue, consumer,
                   reply, clock>>

\* the routed request is finished and the release callback calls MarkPodIdle;
\* every Select call that has not returned has seen a replica become free
QRelease(p) ==
    LET addr == sel[p].addresses[sel[p].index + 1] IN
    /\ sel[p].pc = "held"
    /\ cache' = MarkPodIdle(cache, addr.TargetRef, addr.IP)
    /\ sel' = [sel EXCEPT ![p] = IdleSel]
    /\ outcome' = [q \in Procs |->
                     IF q = p
                     THEN [outcome[q] EXCEPT !.kind = "released"]
                     ELSE IF InSelect(q)
                     THEN [outcome[q] EXCEPT !.freed = TRUE]
                     ELSE IF /\ outcome[q].kind \in QueueErrors
                             /\ clock - outcome[q].start < MaxWaitTime
                     THEN [outcome[q] EXCEPT !.missed = TRUE]
                     ELSE outcome[q]]
    /\ last' = NoCall
    /\ UNCHANGED <<lockVars, requestQueue, pods, endpoints, now, panicked, deployments, maxInflightCache,
                   queue, consumer, reply, clock>>

\* a deadline that never passes
ExpiredNever(elapsed) == FALSE

\* elapsed > queuedRequest.MaxWaitTime
Expired(elapsed) == elapsed > MaxWaitTime

\* processQueue: a request is received; one that has waited longer than
\* MaxWaitTime is answered with a timeout, any other starts an attempt with
\* the ceiling looked up again
CDequeue ==
    LET req == Head(queue)
        elapsed == clock - req.StartTime
    IN  /\ consumer.pc = "recv"
        /\ queue # << >>
        /\ queue' = Tail(queue)
        /\ IF Expired(elapsed)
           THEN /\ reply' = Send(reply, req.owner,
                                 [Index |-> -1, Error |-> "request timeout"])
                /\ outcome' = Replied(outcome, req.owner)
                /\ UNCHANGED <<consumer, sel, maxInflightCache>>
           ELSE /\ consumer' = [pc |-> "work", req |-> req, elapsed |-> elapsed]
                /\ sel' = [sel EXCEPT ![Consumer] =
                             [IdleSel EXCEPT
                                !.pc = "prune",
                                !.function = req.FunctionName,
                                !.addresses = req.Addresses,
                                !.max_inflight =
                                    getFunctionMaxInflight(req.FunctionName)]]
                /\ maxInflightCache' = StoreMaxInflight(req.FunctionName)
                /\ reply' = reply
                /\ outcome' = outcome
        /\ UNCHANGED <<lockVars, requestQueue, storeVars, deployments, clock>>

\* a consumer that answers with the index and puts the request back
CReplyRequeues ==
    /\ consumer.pc = "work"
    /\ sel[Consumer].pc = "held"
    /\ reply' = Send(reply, consumer.req.owner,
                     [Index |-> sel[Consumer].index, Error |-> ""])
    /\ outcome' = Replied(outcome, consumer.req.owner)
    /\ queue' = Offer(queue, consumer.req).queue
    /\ consumer' = [ConsumerOff EXCEPT !.pc = "recv"]
    /\ sel' = [sel EXCEPT ![Consumer] = IdleSel]
    /\ UNCHANGED <<lockVars, requestQueue, storeVars, deployments, maxInflightCache, clock>>

\* processQueue: trySelectIdlePod returned an index
CReply ==
    LET index == sel[Consumer].index IN
    /\ consumer.pc = "work"
    /\ sel[Consumer].pc = "held"
    /\ reply' = Send(reply, consumer.req.owner,
                     IF index >= 0 /\ index < Len(consumer.req.Addresses)
                     THEN [Index |-> index, Error |-> ""]
                     ELSE [Index |-> -1, Error |-> "invalid pod index returned"])
    /\ outcome' = Replied(outcome, consumer.req.owner)
    /\ consumer' = [ConsumerOff EXCEPT !.pc = "recv"]
    /\ sel' = [sel EXCEPT ![Consumer] = IdleSel]
    /\ UNCHANGED <<lockVars, requestQueue, storeVars, deployments, maxInflightCache, queue, clock>>

\* a consumer that puts a failed request back whatever its retry count
CRetryForever ==
    LET req == consumer.req
        sent == Offer(queue, [req EXCEPT !.RetryCount = req.RetryCount + 1])
    IN  /\ consumer.pc = "work"
        /\ LoopExhausted(Consumer)
        /\ queue' = sent.queue
        /\ consumer' = [ConsumerOff EXCEPT !.pc = "recv"]
        /\ sel' = [sel EXCEPT ![Consumer] = IdleSel]
        /\ UNCHANGED <<lockVars, requestQueue, storeVars, deployments, maxInflightCache, reply,
                       outcome, clock>>

\* processQueue: trySelectIdlePod returned an error; the request is put back
\* with one more retry, or it is answered with an error
CRetry ==
    LET req == consumer.req
        sent == Offer(queue, [req EXCEPT !.RetryCount = req.RetryCount + 1])
    IN  /\ consumer.pc = "work"
        /\ LoopExhausted(Consumer)
        /\ IF req.RetryCount < MaxRetries /\ consumer.elapsed < MaxWaitTime
           THEN /\ queue' = sent.queue
                /\ reply' = IF sent.ok THEN reply
                            ELSE Send(reply, req.owner,
                                      [Index |-> -1,
                                       Error |-> "queue full, cannot requeue"])
                /\ outcome' = IF sent.ok THEN outcome
                              ELSE Replied(outcome, req.owner)
           ELSE /\ queue' = queue
                /\ reply' = Send(reply, req.owner,
                                 [Index |-> -1,
                                  Error |-> IF req.RetryCount >= MaxRetries
                                            THEN "max retries exceeded"
                                            ELSE "no idle pods became available"])
                /\ outcome' = Replied(outcome, req.owner)
        /\ consumer' = [ConsumerOff EXCEPT !.pc = "recv"]
        /\ sel' = [sel EXCEPT ![Consumer] = IdleSel]
        /\ UNCHANGED <<lockVars, requestQueue, storeVars, deployments, maxInflightCache, clock>>

\* 50 ms pass; a timer that is due fires before the clock moves on, and a
\* caller's Phase A takes less than one unit of the clock
QTick ==
    /\ clock < MaxClock
    /\ \A p \in Procs :
           /\ sel[p].pc \in {"idle", "held", "waiting"}
           /\ sel[p].pc = "waiting" => clock - outcome[p].start < OuterDeadline
    /\ clock' = clock + 1
    /\ UNCHANGED <<lockVars, requestQueue, storeVars, selVars, queue, consumer, reply, outcome>>

\* Phase A of Select and of the consumer's attempt: PruneByAddresses and
\* trySelectIdlePod
PhaseA(p) ==
    \/ SelectPrune(p)
    \/ SelectGet(p)
    \/ SelectProbe(p)
    \/ SelectTry(p)
    \/ SelectMarkGet(p)
    \/ SelectMarkSet(p)

QCallerStep(p) ==
    \/ QStart(p)
    \/ PhaseA(p)
    \/ QEnqueue(p)
    \/ QReceive(p)
    \/ QOuterTimeout(p)

ConsumerStep ==
    \/ CDequeue
    \/ PhaseA(Consumer)
    \/ CReply
    \/ CRetry

NextQueue ==
    \/ \E p \in Procs : QCallerStep(p) \/ QRelease(p)
    \/ ConsumerStep
    \/ QTick

SpecQueue == InitQueue /\ [][NextQueue]_vars

\* ------------------------------------------------------ a queue that fills
\* Select calls of callers outside Procs, seen from queueAndWaitForPod on;
\* the clock stands still.

FullAddresses == << [IP |-> "ip1", TargetRef |-> "p1"] >>

\* the store after one Select call for the function has returned its replica
InitFull ==
    /\ pods = [n \in PodNames |-> "uA"]
    /\ endpoints = [f \in Functions |->
                       IF f = QueueFunction THEN QueueEndpoints ELSE {}]
    /\ now = 0
    /\ cache = MarkPodBusy(
                   PruneByAddresses(<< >>, QueueFunction, QueueEndpoints,
                                    [ip \in IPs |-> NoKey], 1),
                   "p1", "ip1")
    /\ panicked = FALSE
    /\ last = NoCall
    /\ deployments = [f \in Functions |-> IF f = QueueFunction THEN 1 ELSE 0]
    /\ maxInflightCache = [f \in Functions |->
                              IF f = QueueFunction THEN Ptr(1) ELSE Nil]
    /\ sel = [p \in Workers |-> IdleSel]
    /\ QueueIdle
    /\ LocksIdle

\* queueAndWaitForPod of a caller whose Phase A found every replica at its
\* ceiling: the request is offered to the queue
Arrive ==
    LET req == [owner |-> "other", Addresses |-> FullAddresses,
                FunctionName |-> QueueFunction, StartTime |-> clock,
                RetryCount |-> 0]
        sent == Offer(queue, req)
    IN  /\ AllAtCeiling(cache, QueueFunction)
        /\ \A i \in 1..Len(queue) : queue[i].RetryCount <= MaxRetried
        /\ queue' = sent.queue
        /\ requestQueue' = Registered(requestQueue)
        /\ consumer' = IF consumer.pc = "off"
                       THEN [consumer EXCEPT !.pc = "recv"]
                       ELSE consumer
        /\ last' = [NoCall EXCEPT
                      !.op = "queueAndWaitForPod",
                      !.before = Len(queue),
                      !.status = IF sent.ok THEN "waiting"
                                 ELSE "request queue full"]
        /\ UNCHANGED <<lockVars, cache, pods, endpoints, now, panicked, selVars, reply,
                       outcome, clock>>

NextFull == Arrive \/ ConsumerStep \/ ReleaseOp

SpecFull == InitFull /\ [][NextFull]_vars

\* the same with the callers' goroutines scheduled and the clock running; the
\* consumer may be starved
SpecQueueLive ==
    /\ InitQueue
    /\ [][NextQueue]_vars
    /\ \A p \in Procs : WF_vars(QCallerStep(p))
    /\ WF_vars(QTick)

\* ------------------------------------------- the creation of the queue
\* queueAndWaitForPod statement by statement, for callers whose Phase A found
\* the function's replica at its ceiling.

\* queueAndWaitForPod is entered
MuxEnter(p) ==
    /\ sel[p].pc = "idle"
    /\ outcome[p].kind = ""
    /\ AllAtCeiling(cache, QueueFunction)
    /\ clock + OuterDeadline <= MaxClock
    /\ sel' = [sel EXCEPT ![p] =
                 [IdleSel EXCEPT !.pc = "mux",
                                 !.function = QueueFunction,
                                 !.addresses = FullAddresses]]
    /\ outcome' = [outcome EXCEPT ![p] = [NoOutcome EXCEPT !.start = clock]]
    /\ UNCHANGED <<lockVars, storeVars, deployments, maxInflightCache, queue,
                   consumer, reply, clock, requestQueue>>

\* a caller that goes on without queueMux
MuxLockFree(p) ==
    /\ sel[p].pc = "mux"
    /\ sel' = [sel EXCEPT ![p].pc = "lookup"]
    /\ UNCHANGED <<lockVars, storeVars, deployments, maxInflightCache, queue,
                   consumer, reply, outcome, clock, requestQueue>>

\* s.queueMux.Lock()
MuxLock(p) ==
    /\ sel[p].pc = "mux"
    /\ requestQueue.mux = ""
    /\ requestQueue' = [requestQueue EXCEPT !.mux = p]
    /\ sel' = [sel EXCEPT ![p].pc = "lookup"]
    /\ UNCHANGED <<lockVars, storeVars, deployments, maxInflightCache, queue,
                   consumer, reply, outcome, clock>>

\* queue, exists := s.requestQueue[key]
MuxLookup(p) ==
    /\ sel[p].pc = "lookup"
    /\ sel' = [sel EXCEPT ![p].pc = IF requestQueue.exists THEN "unlock" ELSE "make"]
    /\ UNCHANGED <<lockVars, storeVars, deployments, maxInflightCache, queue,
                   consumer, reply, outcome, clock, requestQueue>>

\* the channel is made and stored, and go s.processQueue(...) starts
MuxMake(p) ==
    /\ sel[p].pc = "make"
    /\ requestQueue' = [requestQueue EXCEPT !.exists = TRUE,
                                            !.created = requestQueue.created + 1,
                                            !.spawned = requestQueue.spawned + 1]
    /\ consumer' = IF consumer.pc = "off"
                   THEN [consumer EXCEPT !.pc = "recv"]
                   ELSE consumer
    /\ sel' = [sel EXCEPT ![p].pc = "unlock"]
    /\ UNCHANGED <<lockVars, storeVars, deployments, maxInflightCache, queue,
                   reply, outcome, clock>>

\* s.queueMux.Unlock()
MuxUnlock(p) ==
    /\ sel[p].pc = "unlock"
    /\ requestQueue' = [requestQueue EXCEPT
                          !.mux = IF requestQueue.mux = p THEN "" ELSE requestQueue.mux]
    /\ sel' = [sel EXCEPT ![p].pc = "send"]
    /\ UNCHANGED <<lockVars, storeVars, deployments, maxInflightCache, queue,
                   consumer, reply, outcome, clock>>

\* the request is built and offered to the queue
MuxSend(p) ==
    LET req == [owner |-> p, Addresses |-> sel[p].addresses,
                FunctionName |-> sel[p].function, StartTime |-> clock,
                RetryCount |-> 0]
        sent == Offer(queue, req)
    IN  /\ sel[p].pc = "send"
        /\ queue' = sent.queue
        /\ IF sent.ok
           THEN /\ sel' = [sel EXCEPT ![p].pc = "waiting"]
                /\ outcome' = [outcome EXCEPT ![p].start = clock]
           ELSE /\ sel' = [sel EXCEPT ![p] = IdleSel]
                /\ outcome' = [outcome EXCEPT ![p].start = clock,
                                              ![p].kind = "request queue full"]
        /\ UNCHANGED <<lockVars, storeVars, deployments, maxInflightCache, consumer,
                       reply, clock, requestQueue>>

MuxStep(p) ==
    \/ MuxEnter(p)
    \/ MuxLock(p)
    \/ MuxLookup(p)
    \/ MuxMake(p)
    \/ MuxUnlock(p)
    \/ MuxSend(p)

NextSpawn ==
    \/ \E p \in Procs : MuxStep(p) \/ QReceive(p) \/ QOuterTimeout(p) \/ QRelease(p)
    \/ ConsumerStep
    \/ QTick
    \/ ReleaseOp

SpecSpawn == InitFull /\ [][NextSpawn]_vars

\* ------------------------------------------- lookups that fail and recover
\* One function with one replica that is never replaced: the pod p1 keeps the
\* UID uA, and Pods().Get(p1) fails for a while and answers again.

OutageEndpoints == { [IP |-> "ip1", TargetRef |-> "p1"] }
OutageCeiling == 2

InitOutage ==
    /\ cache = << >>
    /\ pods = [n \in PodNames |-> "uA"]
    /\ endpoints = [f \in Functions |-> IF f = "f" THEN OutageEndpoints ELSE {}]
    /\ now = 0
    /\ panicked = FALSE
    /\ last = NoCall
    /\ deployments = [f \in Functions |-> IF f = "f" THEN OutageCeiling ELSE 0]
    /\ maxInflightCache = [f \in Functions |-> Nil]
    /\ sel = [p \in Workers |-> IdleSel]
    /\ QueueIdle
    /\ LocksIdle

\* the reconcile that every Select starts with, on the function's endpoints
OutageReconcile ==
    /\ PruneCall("f", endpoints["f"], OutageCeiling)
    /\ UNCHANGED <<pods, endpoints, now, panicked>>
    /\ UNCHANGED <<selVars, queueVars, lockVars>>

\* Pods().Get(p1) starts to return an error
LookupFails ==
    /\ pods["p1"] = "uA"
    /\ pods' = [pods EXCEPT !["p1"] = NoPod]
    /\ last' = NoCall
    /\ UNCHANGED <<cache, endpoints, now, panicked>>
    /\ UNCHANGED <<selVars, queueVars, lockVars>>

\* Pods().Get(p1) answers again, with the pod's UID
LookupRecovers ==
    /\ pods["p1"] = NoPod
    /\ pods' = [pods EXCEPT !["p1"] = "uA"]
    /\ last' = NoCall
    /\ UNCHANGED <<cache, endpoints, now, panicked>>
    /\ UNCHANGED <<selVars, queueVars, lockVars>>

NextOutage ==
    \/ OutageReconcile
    \/ ClaimOp
    \/ ReleaseOp
    \/ LookupFails
    \/ LookupRecovers
    \/ Tick

SpecOutage == InitOutage /\ [][NextOutage]_vars

\* ------------------------------------------------- the pods-status listing
\* The listing of one function whose endpoints have no, one or two addresses.

ListEndpoints ==
    { {}, {[IP |-> "ip1", TargetRef |-> "p1"]},
      {[IP |-> "ip1", TargetRef |-> "p1"], [IP |-> "ip2", TargetRef |-> "p2"]} }

ListCeiling == 2

InitList ==
    /\ cache = << >>
    /\ pods = [n \in PodNames |-> "uA"]
    /\ endpoints \in { e \in [Functions -> ListEndpoints] : e["g"] = {} }
    /\ now = 0
    /\ panicked = FALSE
    /\ last = NoCall
    /\ deployments = [f \in Functions |-> IF f = "f" THEN ListCeiling ELSE 0]
    /\ maxInflightCache = [f \in Functions |-> Nil]
    /\ sel = [p \in Workers |-> IdleSel]
    /\ QueueIdle
    /\ LocksIdle

\* MakePodsStatusFetchHandler: GetPodStatusByFunction copies what GetByFunction
\* returns, record by record
ListOp ==
    \E pick \in GetChoices(cache, "f") :
    \E order \in Orders(refreshAddresses("f")) :
        LET got == GetByFunction(cache, "f", order, pick) IN
        \E answers \in [1..Len(got.rounds) -> SUBSET IPs] :
            /\ cache' = got.cache
            /\ last' = [NoCall EXCEPT !.op = "GetPodStatusByFunction",
                                      !.function = "f",
                                      !.addresses = refreshAddresses("f"),
                                      !.listing = Appended(got.rounds, answers)]
            /\ UNCHANGED <<pods, endpoints, now, panicked>>
            /\ UNCHANGED <<selVars, queueVars, lockVars>>

\* the orchestrator adds or removes replicas of the function
ListEndpointChange ==
    \E S \in ListEndpoints :
        /\ endpoints["f"] # S
        /\ endpoints' = [endpoints EXCEPT !["f"] = S]
        /\ last' = NoCall
        /\ UNCHANGED <<cache, pods, now, panicked>>
        /\ UNCHANGED <<selVars, queueVars, lockVars>>

NextList == ListOp \/ ClaimOp \/ ReleaseOp \/ ListEndpointChange

SpecList == InitList /\ [][NextList]_vars

\* ------------------------------------------------- the ceiling lookups
\* Calls of getFunctionMaxInflight, one at a time, while deployments are
\* edited.  A caller keeps the function and the value of its last lookup.

InitCeiling ==
    /\ cache = << >>
    /\ pods = [n \in PodNames |-> "uA"]
    /\ endpoints = [f \in Functions |-> {}]
    /\ now = 0
    /\ panicked = FALSE
    /\ last = NoCall
    /\ deployments \in [Functions -> Ceilings \cup {0}]
    /\ maxInflightCache = [f \in Functions |-> Nil]
    /\ sel = [p \in Workers |-> IdleSel]
    /\ QueueIdle
    /\ LocksIdle

\* getFunctionMaxInflight as Select calls it; the orchestrator is asked for
\* the deployment when the cache has no value
LookupOp(p) ==
    \E function \in Functions :
        /\ sel' = [sel EXCEPT ![p].function = function,
                              ![p].max_inflight = getFunctionMaxInflight(function)]
        /\ maxInflightCache' = StoreMaxInflight(function)
        /\ last' = [NoCall EXCEPT
                      !.op = "getFunctionMaxInflight",
                      !.function = function,
                      !.before = getFunctionMaxInflight(function),
                      !.result = (maxInflightCache[function] = Nil)]
        /\ UNCHANGED <<cache, pods, endpoints, now, panicked, deployments,
                       queueVars, lockVars>>

\* the max_inflight variable of a deployment is set, changed or removed
DeploymentChange ==
    \E function \in Functions, v \in Ceilings \cup {0} :
        /\ deployments[function] # v
        /\ deployments' = [deployments EXCEPT ![function] = v]
        /\ last' = NoCall
        /\ UNCHANGED <<cache, pods, endpoints, now, panicked, maxInflightCache, sel,
                       queueVars, lockVars>>

NextCeiling == (\E p \in Procs : LookupOp(p)) \/ DeploymentChange

SpecCeiling == InitCeiling /\ [][NextCeiling]_vars

\* ------------------------------------------------- the URL of Resolve
\* the query parameters
QueryKeys == {"podName", "podIP", "podNamespace", "OpenFaaS-Internal-ID"}

\* Resolve after Select returned target: the host is the IP of the address at
\* the index; the query is set only when the address has a TargetRef
ResolveURL(addresses, target, namespace, requestID) ==
    LET serviceIP == addresses[target + 1].IP
        podName == addresses[target + 1].TargetRef
    IN  [ Host |-> serviceIP,
          Query |-> IF podName # ""
                    THEN [k \in QueryKeys |->
                            CASE k = "podName" -> podName
                              [] k = "podIP" -> serviceIP
                              [] k = "podNamespace" -> namespace
                              [] OTHER -> requestID]
                    ELSE << >> ]

\* --------------------------------------------- one Select, one record
\* One caller and a store that holds the function's one replica, idle with
\* no request in flight, as a reconcile with the function's ceiling left it.

OneCaller == "s1"
OneCeilings == 1..5
OneEndpoints == { [IP |-> "ip1", TargetRef |-> "p1"] }

InitOne ==
    /\ pods = [n \in PodNames |-> "uA"]
    /\ endpoints \in { e \in [Functions -> SUBSET AddressPool] :
                         /\ e["g"] = {}
                         /\ \E ref \in {"p1", ""} :
                                e["f"] = { [IP |-> "ip1", TargetRef |-> ref] } }
    /\ now = 0
    /\ deployments \in { d \in [Functions -> OneCeilings \cup {0}] :
                           d["g"] = 0 /\ d["f"] # 0 }
    /\ cache = PruneByAddresses(<< >>, "f", OneEndpoints, [ip \in IPs |-> NoKey],
                                deployments["f"])
    /\ panicked = FALSE
    /\ last = NoCall
    /\ maxInflightCache = [f \in Functions |-> Nil]
    /\ sel = [p \in Workers |-> IdleSel]
    /\ QueueIdle
    /\ LocksIdle

\* one Select after another, each from the store the reconcile left: the
\* routed request of a Select that returned an index is still in flight
NextOne ==
    \/ SelectStart(OneCaller)
    \/ SelectPrune(OneCaller)
    \/ SelectGet(OneCaller)
    \/ SelectProbe(OneCaller)
    \/ SelectTry(OneCaller)
    \/ SelectMarkGet(OneCaller)
    \/ SelectMarkSet(OneCaller)
    \/ SelectQueue(OneCaller)
    \/ SelectTimeout(OneCaller)

SpecOne == InitOne /\ [][NextOne]_vars

\* ------------------------------------- Resolve, Select and the release
\* One caller routes a request at a time through Resolve and releases it; the
\* replica behind the function's one IP is replaced by a replica of another
\* name that the orchestrator gives the same IP.

ResolveCaller == "s1"
ResolveEndpoints ==
    { {[IP |-> "ip1", TargetRef |-> "p1"]}, {[IP |-> "ip1", TargetRef |-> "p2"]} }

InitResolve ==
    /\ pods = [n \in PodNames |-> IF n = "p1" THEN "uA" ELSE "uB"]
    /\ endpoints = [f \in Functions |->
                      IF f = "f" THEN {[IP |-> "ip1", TargetRef |-> "p1"]} ELSE {}]
    /\ now = 0
    /\ deployments \in { d \in [Functions -> SelCeilings \cup {0}] :
                           d["g"] = 0 /\ d["f"] # 0 }
    /\ cache = << >>
    /\ panicked = FALSE
    /\ last = NoCall
    /\ maxInflightCache = [f \in Functions |-> Nil]
    /\ sel = [p \in Workers |-> IdleSel]
    /\ QueueIdle
    /\ LocksIdle

\* the orchestrator replaces the replica: same IP, another name
ReplaceReplica ==
    \E S \in ResolveEndpoints :
        /\ endpoints["f"] # S
        /\ endpoints' = [endpoints EXCEPT !["f"] = S]
        /\ last' = NoCall
        /\ UNCHANGED <<cache, pods, now, panicked, selVars, queueVars, lockVars>>

NextResolve == SelectStep(ResolveCaller) \/ ReplaceReplica

SpecResolve == InitResolve /\ [][NextResolve]_vars

\* ------------------------------------------------ the mutexes of the store
\* Threads call Set, TryMarkPodBusy, PruneByAddresses and GetByFunction, one
\* step per mutex operation and per access to the map.  Select, MarkPodBusy
\* and MarkPodIdle hold no mutex between these calls; Get takes none.

LockAddresses == { [IP |-> "ip1", TargetRef |-> "p1"] }
LockSnapshots == { LockAddresses }
LockCeilings == {MaxConn + 1}
LockSetFunctions == {"f"}
LockCommands == {"busy", "idle"}
FunctionCalls == {"PruneByAddresses", "GetByFunction"}

InitLocks ==
    /\ cache = << >>
    /\ pods = [n \in PodNames |-> "uA"]
    /\ endpoints = [f \in Functions |-> IF f = "f" THEN LockAddresses ELSE {}]
    /\ now = 0
    /\ panicked = FALSE
    /\ last = NoCall
    /\ deployments = [f \in Functions |-> MaxConn + 1]
    /\ maxInflightCache = [f \in Functions |-> Nil]
    /\ sel = [p \in Workers |-> IdleSel]
    /\ QueueIdle
    /\ LocksIdle

\* the threads inside a Set("busy") on the key
BusyCalls(key) ==
    { u \in LockThreads : /\ threads[u].call.name = "Set"
                          /\ threads[u].call.status = "busy"
                          /\ threads[u].call.key = key }

\* a thread calls Set
ThreadSet(t) ==
    \E key \in LockRecords, status \in LockCommands, function \in LockSetFunctions,
       m \in LockCeilings :
        /\ threads[t].pc = "idle"
        /\ (status = "busy" /\ key \in DOMAIN cache)
               => cache[key].ActiveConnections + Cardinality(BusyCalls(key)) < MaxConn
        /\ threads' = [threads EXCEPT ![t] =
                         [IdleThread EXCEPT
                            !.op = "Set", !.pc = "lock",
                            !.call = [NoStoreCall EXCEPT
                                        !.name = "Set", !.key = key,
                                        !.status = status,
                                        !.function = function,
                                        !.maxInflight = Ptr(m)]]]
        /\ UNCHANGED <<storeVars, selVars, queueVars, podLocks>>

\* a thread calls TryMarkPodBusy
ThreadTry(t) ==
    \E key \in LockRecords :
        /\ threads[t].pc = "idle"
        /\ threads' = [threads EXCEPT ![t] =
                         [IdleThread EXCEPT
                            !.op = "TryMarkPodBusy", !.pc = "lock",
                            !.call = [NoStoreCall EXCEPT
                                        !.name = "TryMarkPodBusy",
                                        !.key = key]]]
        /\ UNCHANGED <<storeVars, selVars, queueVars, podLocks>>

\* a thread calls PruneByAddresses
ThreadPrune(t) ==
    \E function \in Functions, addresses \in LockSnapshots,
       max_inflight \in LockCeilings :
        /\ threads[t].pc = "idle"
        /\ threads' = [threads EXCEPT ![t] =
                         [IdleThread EXCEPT
                            !.op = "PruneByAddresses", !.pc = "fnlock",
                            !.function = function, !.addrs = addresses,
                            !.max_inflight = max_inflight]]
        /\ UNCHANGED <<storeVars, selVars, queueVars, podLocks>>

\* a thread calls GetByFunction
ThreadGetByFunction(t) ==
    \E function \in Functions :
        /\ threads[t].pc = "idle"
        /\ threads' = [threads EXCEPT ![t] =
                         [IdleThread EXCEPT
                            !.op = "GetByFunction", !.pc = "fnlock",
                            !.function = function]]
        /\ UNCHANGED <<storeVars, selVars, queueVars, podLocks>>

\* PruneByAddresses, GetByFunction: lock.Lock() on the function's mutex, then
\* refreshAddresses
LockFunction(t) ==
    LET th == threads[t]
        l == getFunctionLock(th.function)
    IN  /\ th.pc = "fnlock"
        /\ podLocks[l] = NoThread
        /\ podLocks' = [podLocks EXCEPT ![l] = t]
        /\ threads' = [threads EXCEPT
                         ![t].pc = "scan",
                         ![t].addrs = IF th.op = "GetByFunction"
                                      THEN refreshAddresses(th.function)
                                      ELSE EffectiveAddresses(th.function, th.addrs)]
        /\ UNCHANGED <<storeVars, selVars, queueVars>>

\* step 1 under the function's mutex: the stale records are deleted
ScanStale(t) ==
    LET th == threads[t] IN
    /\ th.pc = "scan"
    /\ cache' = RemoveStale(cache, th.function, th.addrs)
    /\ threads' = [threads EXCEPT ![t].pc = "next"]
    /\ last' = NoCall
    /\ UNCHANGED <<pods, endpoints, now, panicked, selVars, queueVars, podLocks>>

SetArgs(podName, status, podIP, function, maxInflight) ==
    [NoStoreCall EXCEPT !.name = "Set", !.key = createKey(podName, podIP),
                        !.status = status, !.function = function,
                        !.maxInflight = maxInflight]

UIDArgs(podName, podIP, podUID) ==
    [NoStoreCall EXCEPT !.name = "setPodUID", !.key = createKey(podName, podIP),
                        !.podUID = podUID]

\* step 2, found branch: the calls made for one address
FoundCalls(op, function, addr, pod) ==
    IF addr.TargetRef # "" /\ ~GetPodErr(addr.TargetRef)
                           /\ pods[addr.TargetRef] # pod.PodUID
    THEN << SetArgs(pod.PodName, "reset", addr.IP, function, pod.MaxInflight),
            UIDArgs(pod.PodName, addr.IP, pods[addr.TargetRef]) >>
    ELSE IF op = "PruneByAddresses" /\ addr.TargetRef # ""
            /\ ~GetPodErr(addr.TargetRef) /\ StuckBusy(pod)
    THEN << SetArgs(pod.PodName, "reset", addr.IP, function, pod.MaxInflight) >>
    ELSE << >>

\* step 2, not-found branch: the calls made for one address
MissingCalls(op, function, addr, max_inflight) ==
    IF op = "PruneByAddresses"
    THEN LET podName == IF addr.TargetRef # "" THEN addr.TargetRef ELSE addr.IP
             podUID == IF addr.TargetRef # "" THEN CurrentPodUID(podName) ELSE ""
         IN  << SetArgs(podName, "idle", addr.IP, function, Ptr(max_inflight)),
                UIDArgs(podName, addr.IP, podUID) >>
    ELSE IF addr.TargetRef # ""
    THEN << SetArgs(addr.TargetRef, "idle", addr.IP, function,
                    Ptr(GetMissingMax(function, addr, max_inflight))),
            UIDArgs(addr.TargetRef, addr.IP, CurrentPodUID(addr.TargetRef)) >>
    ELSE << >>

\* step 2 under the function's mutex: the next call of the iteration, or the
\* next address and its Range scan, or the end of the loop
NextAddress(t) ==
    LET th == threads[t] IN
    /\ th.pc = "next"
    /\ IF th.todo # << >>
       THEN threads' = [threads EXCEPT ![t].pc = "lock",
                                       ![t].call = Head(th.todo),
                                       ![t].todo = Tail(th.todo)]
       ELSE IF th.addrs = {}
       THEN threads' = [threads EXCEPT ![t].pc = "fnunlock"]
       ELSE \E addr \in th.addrs :
            \E found \in Matching(cache, th.function, addr.IP) \cup {NoKey} :
                /\ (found = NoKey) = (Matching(cache, th.function, addr.IP) = {})
                /\ threads' = [threads EXCEPT
                     ![t].addrs = th.addrs \ {addr},
                     ![t].todo =
                         IF found = NoKey
                         THEN MissingCalls(th.op, th.function, addr, th.max_inflight)
                         ELSE FoundCalls(th.op, th.function, addr, cache[found]),
                     ![t].max_inflight =
                         IF found = NoKey /\ th.op = "GetByFunction"
                         THEN GetMissingMax(th.function, addr, th.max_inflight)
                         ELSE th.max_inflight]
    /\ UNCHANGED <<storeVars, selVars, queueVars, podLocks>>

\* a call that goes on without the record's mutex
LockPodFree(t) ==
    /\ threads[t].pc = "lock"
    /\ threads' = [threads EXCEPT ![t].pc = "load"]
    /\ UNCHANGED <<storeVars, selVars, queueVars, podLocks>>

\* Set, setPodUID, TryMarkPodBusy: lock.Lock() on the record's mutex
LockPod(t) ==
    LET l == PodLock(threads[t].call.key) IN
    /\ threads[t].pc = "lock"
    /\ podLocks[l] = NoThread
    /\ podLocks' = [podLocks EXCEPT ![l] = t]
    /\ threads' = [threads EXCEPT ![t].pc = "load"]
    /\ UNCHANGED <<storeVars, selVars, queueVars>>

\* cache.Load(key) under the record's mutex
LoadPod(t) ==
    LET key == threads[t].call.key IN
    /\ threads[t].pc = "load"
    /\ threads' = [threads EXCEPT
                     ![t].pc = "store",
                     ![t].view = [k \in {key} \cap DOMAIN cache |-> cache[k]]]
    /\ UNCHANGED <<storeVars, selVars, queueVars, podLocks>>

\* the value the call computes from what it loaded
StoredValue(call, view) ==
    IF call.name = "Set"
    THEN SetValue(view, call.key[1], call.status, call.key[2], call.function,
                  call.maxInflight)
    ELSE [view[call.key] EXCEPT !.PodUID = call.podUID]

\* cache.Store(key, ...) of Set and setPodUID, the test of TryMarkPodBusy
StorePod(t) ==
    LET th == threads[t]
        key == th.call.key
        writes == th.call.name = "Set"
                    \/ (th.call.name = "setPodUID" /\ key \in DOMAIN th.view)
    IN  /\ th.pc = "store"
        /\ cache' = IF writes
                    THEN [k \in DOMAIN cache \cup {key} |->
                            IF k = key THEN StoredValue(th.call, th.view)
                            ELSE cache[k]]
                    ELSE cache
        /\ threads' = [threads EXCEPT
                         ![t].pc = "unlock",
                         ![t].result = IF th.call.name = "TryMarkPodBusy"
                                       THEN TryMarkPodBusy(th.view, key[1], key[2])
                                       ELSE th.result]
        /\ last' = NoCall
        /\ UNCHANGED <<pods, endpoints, now, panicked, selVars, queueVars, podLocks>>

\* a return that leaves the record's mutex locked
UnlockPodLost(t) ==
    /\ threads[t].pc = "unlock"
    /\ threads' = [threads EXCEPT ![t] =
                     IF threads[t].op \in FunctionCalls
                     THEN [threads[t] EXCEPT !.pc = "next", !.call = NoStoreCall,
                                             !.view = << >>]
                     ELSE IdleThread]
    /\ UNCHANGED <<storeVars, selVars, queueVars, podLocks>>

\* the deferred lock.Unlock() of the record's mutex; the call returns
UnlockPod(t) ==
    LET l == PodLock(threads[t].call.key) IN
    /\ threads[t].pc = "unlock"
    /\ podLocks' = [podLocks EXCEPT ![l] = NoThread]
    /\ threads' = [threads EXCEPT ![t] =
                     IF threads[t].op \in FunctionCalls
                     THEN [threads[t] EXCEPT !.pc = "next", !.call = NoStoreCall,
                                             !.view = << >>]
                     ELSE IdleThread]
    /\ UNCHANGED <<storeVars, selVars, queueVars>>

\* the deferred lock.Unlock() of the function's mutex; the call returns
UnlockFunction(t) ==
    LET l == getFunctionLock(threads[t].function) IN
    /\ threads[t].pc = "fnunlock"
    /\ podLocks' = [podLocks EXCEPT ![l] = NoThread]
    /\ threads' = [threads EXCEPT ![t] = IdleThread]
    /\ UNCHANGED <<storeVars, selVars, queueVars>>

ThreadStep(t) ==
    \/ ThreadSet(t)
    \/ ThreadTry(t)
    \/ ThreadPrune(t)
    \/ ThreadGetByFunction(t)
    \/ LockFunction(t)
    \/ ScanStale(t)
    \/ NextAddress(t)
    \/ LockPod(t)
    \/ LoadPod(t)
    \/ StorePod(t)
    \/ UnlockPod(t)
    \/ UnlockFunction(t)

NextLocks == \E t \in LockThreads : ThreadStep(t)

SpecLocks == InitLocks /\ [][NextLocks]_vars

\* --------------------------------------------- single calls of the store

CallCeilings == { Nil, Ptr(0), Ptr(1), Ptr(2) }
CallPruneCeilings == {0, 1, 2}

InitCalls == InitStore({}, {{}})

\* a call of PodStatusCache.Set, with its arguments kept
SetCall(key, status, function, maxInflight) ==
    /\ ~panicked
    /\ (status = "busy" /\ key \in DOMAIN cache)
           => cache[key].ActiveConnections < MaxConn
    /\ IF SetPanics(cache, key[1], key[2], maxInflight)
       THEN panicked' = TRUE /\ cache' = cache
       ELSE /\ cache' = Set(cache, key[1], status, key[2], function, maxInflight)
            /\ panicked' = panicked
    /\ last' = [NoCall EXCEPT !.op = "Set", !.key = key, !.status = status,
                              !.function = function,
                              !.maxInflight = maxInflight,
                              !.existed = (key \in DOMAIN cache),
                              !.before = IF key \in DOMAIN cache
                                         THEN cache[key].ActiveConnections
                                         ELSE 0]
    /\ UNCHANGED <<pods, endpoints, now>>
    /\ UNCHANGED <<selVars, queueVars, lockVars>>

CallSet ==
    \E key \in SetKeys, status \in Commands, function \in SetFunctions,
       maxInflight \in CallCeilings :
        SetCall(key, status, function, maxInflight)

\* a call of PodStatusCache.TryMarkPodBusy
CallTry ==
    \E key \in SetKeys :
        /\ ~panicked
        /\ last' = [NoCall EXCEPT !.op = "TryMarkPodBusy", !.key = key,
                                  !.result = TryMarkPodBusy(cache, key[1], key[2])]
        /\ UNCHANGED <<cache, pods, endpoints, now, panicked>>
        /\ UNCHANGED <<selVars, queueVars, lockVars>>

\* a call of PodStatusCache.PruneByAddresses with any ceiling
CallPrune ==
    \E function \in SetFunctions, addresses \in SetSnapshots,
       max_inflight \in CallPruneCeilings :
        /\ ~panicked
        /\ PruneCall(function, addresses, max_inflight)
        /\ UNCHANGED <<pods, endpoints, now, panicked>>
        /\ UNCHANGED <<selVars, queueVars, lockVars>>

NextCalls == CallSet \/ CallTry \/ CallPrune

SpecCalls == InitCalls /\ [][NextCalls]_vars

\* ------------------------------- commands racing for one record's counter

MaxCmd == 6         \* Set("busy") and Set("idle") commands issued on the key
CountKey == <<"p1", "ip1">>
CountCeilings == { Ptr(1), Ptr(3), Ptr(MaxInt32) }

InitCount == InitStore({}, {{}})

\* the record is created, with active_connections = 0
CountCreate ==
    \E maxInflight \in CountCeilings :
        /\ CountKey \notin DOMAIN cache
        /\ SetCall(CountKey, "idle", "f", maxInflight)

\* one of the concurrent commands gets the per-pod lock and runs
CountCommand ==
    \E status \in {"busy", "idle"} :
        /\ CountKey \in DOMAIN cache
        /\ last.nBusy + last.nIdle < MaxCmd
        /\ ~panicked
        /\ cache' = MarkPodSet(cache, CountKey[1], CountKey[2], status,
                               cache[CountKey])
        /\ last' = [NoCall EXCEPT
                      !.op = "Set", !.key = CountKey, !.status = status,
                      !.existed = TRUE,
                      !.before = cache[CountKey].ActiveConnections,
                      !.nBusy = last.nBusy + (IF status = "busy" THEN 1 ELSE 0),
                      !.nIdle = last.nIdle + (IF status = "idle" THEN 1 ELSE 0)]
        /\ UNCHANGED <<pods, endpoints, now, panicked>>
        /\ UNCHANGED <<selVars, queueVars, lockVars>>

NextCount == CountCreate \/ CountCommand

SpecCount == InitCount /\ [][NextCount]_vars

\* --------------------------------------------- a reconcile called twice

\* the store with every timestamp blanked
StripTime(c) == [ k \in DOMAIN c |-> [c[k] EXCEPT !.Timestamp = 0] ]

\* the reconcile that has just run is called again with the same function and
\* snapshot, before anything else happens
ReconcileAgain ==
    \E max_inflight \in Ceilings :
        /\ last.op = "PruneByAddresses"
        /\ \E pick \in PruneChoices(cache, last.function, last.addresses) :
               cache' = PruneByAddresses(cache, last.function, last.addresses,
                                         pick, max_inflight)
        /\ last' = [NoCall EXCEPT !.op = "PruneByAddresses again",
                                  !.function = last.function,
                                  !.addresses = last.addresses,
                                  !.deleted = last.deleted,
                                  !.created = last.created,
                                  !.uidChanged = last.uidChanged,
                                  !.prev = StripTime(cache)]
        /\ UNCHANGED <<pods, endpoints, now, panicked>>
        /\ UNCHANGED <<selVars, queueVars, lockVars>>

NextIdem ==
    TTLReconcile \/ ReconcileAgain \/ ClaimOp \/ ReleaseOp \/ Tick \/ TTLPodChange

SpecIdem == InitTTL /\ [][NextIdem]_vars

\* ------------------------------------------------------------------ C1
\* C1: for every record with a ceiling max_inflight = k > 0, under every
\* interleaving of concurrent Select calls, release callbacks and reconciles,
\* the stored active_connections never exceeds k.
C1_CeilingRespected ==
    \A k \in DOMAIN cache :
        (cache[k].MaxInflight # Nil /\ Deref(cache[k].MaxInflight) > 0)
            => cache[k].ActiveConnections <= Deref(cache[k].MaxInflight)

\* ------------------------------------------------------------------ C2
\* C2: with max_inflight = 1 a replica is a strict mutex: between a Select
\* call returning the replica's index and the matching release no other
\* Select call returns the same replica.
C2_StrictMutex ==
    \A p, q \in Procs :
        ( /\ p # q
          /\ sel[p].pc = "held" /\ sel[q].pc = "held"
          /\ sel[p].max_inflight = 1 /\ sel[q].max_inflight = 1 )
            => sel[p].selected # sel[q].selected

\* ------------------------------------------------------------------ C3
\* C3: whenever Select returns an index i without error, 0 <= i <
\* len(addresses), addresses[i].IP is the IP of the replica it chose, and the
\* call incremented that replica's active_connections by exactly one before
\* it returned, also with a reconcile or a release running concurrently.
C3_ReturnedClaimed ==
    \A p \in Procs :
        sel[p].pc = "held" =>
            /\ 0 <= sel[p].index /\ sel[p].index < Len(sel[p].addresses)
            /\ sel[p].addresses[sel[p].index + 1].IP = sel[p].selected.PodIP
            /\ sel[p].incremented

\* ------------------------------------------------------------------ C4
\* C4: Select never goes on to claim, never increments the counter of and
\* never returns a replica whose liveness probe in that attempt did not
\* answer HTTP 200, and a failed probe leaves the store unchanged.
C4_ProbeGate ==
    [][ \A p \in Procs :
          /\ sel'[p].pc \in {"try", "mark", "set", "held"}
                 => sel'[p].answer = 200
          /\ (sel[p].pc = "set" /\ cache' # cache) => sel[p].answer = 200
          /\ ( /\ sel[p].pc = "loop"
               /\ sel'[p].pc = "loop"
               /\ sel'[p].tryCount = sel[p].tryCount + 1
               /\ sel'[p].answer # 200 )
                 => cache' = cache ]_vars

\* a caller's probe of a candidate has just failed: the candidate is dropped
\* from the caller's list, the try is counted and the candidate's record is
\* still idle with no request in flight
C4_Witness ==
    \E p \in Procs :
        LET key == createKey(sel[p].selected.PodName, sel[p].selected.PodIP) IN
        /\ sel[p].pc = "loop"
        /\ sel[p].answer = 503
        /\ sel[p].tryCount >= 1
        /\ sel[p].selected \notin sel[p].idlePods
        /\ key \in DOMAIN cache
        /\ cache[key].Status = "idle"
        /\ cache[key].ActiveConnections = 0

\* ------------------------------------------------------------------ C5
\* C5: active_connections of every record is >= 0 in every reachable state,
\* whatever Set("busy"), Set("idle"), Set("reset") and reconcile calls were made,
\* also after Set("idle") on a record whose counter is already zero.
C5_NonNegative ==
    \A k \in DOMAIN cache : cache[k].ActiveConnections >= 0

\* Set("idle") was applied to an existing record whose counter was zero
C5_Witness ==
    /\ last.op = "Set" /\ last.status = "idle"
    /\ last.existed /\ last.before = 0
    /\ last.key \in DOMAIN cache
    /\ cache[last.key].ActiveConnections = 0

\* ------------------------------------------------------------------ C6
\* C6: for every record with a ceiling set, status = busy holds exactly when
\* active_connections >= max_inflight.
C6_BusyIffAtCeiling ==
    \A k \in DOMAIN cache :
        cache[k].MaxInflight # Nil =>
            ( cache[k].Status = "busy"
              <=> cache[k].ActiveConnections >= Deref(cache[k].MaxInflight) )

\* ------------------------------------------------------------------ C7
\* C7 as stated: when PruneByAddresses(f, n, S, ...) returns, the IPs of the
\* records of (f, n) are exactly the IPs of S, for every caller-supplied S.
C7_Original ==
    last.op = "PruneByAddresses" =>
        IPsOf(cache, last.function) = AddrIPs(last.addresses)

\* C7 amended: when PruneByAddresses(f, n, S, ...) returns, the IPs of the
\* records of (f, n) are exactly the IPs of S if S is not empty, and exactly
\* the IPs of the orchestrator's current endpoints of f if S is empty.
C7_PruneIPs ==
    last.op = "PruneByAddresses" =>
        IPsOf(cache, last.function) =
            AddrIPs(IF last.addresses # {} THEN last.addresses
                    ELSE endpoints[last.function])

\* a reconcile with a snapshot that deleted a stale record and created a missing one
C7_Witness ==
    /\ last.op = "PruneByAddresses"
    /\ last.addresses # {}
    /\ last.deleted # {}
    /\ last.created # {}
    /\ IPsOf(cache, last.function) = AddrIPs(last.addresses)

\* ------------------------------------------------------------------ C8
\* the address of the last reconcile's snapshot with this IP
LastAddr(ip) ==
    CHOOSE a \in EffectiveAddresses(last.function, last.addresses) : a.IP = ip

\* C8: a record that a reconcile finds with a stored replica_uid other than the
\* orchestrator's current UID of that endpoint's replica is, after the
\* reconcile, idle with active_connections = 0 and carries the current UID.
C8_UIDReset ==
    last.op = "PruneByAddresses" =>
        \A k \in last.uidChanged :
            /\ k \in DOMAIN cache
            /\ cache[k].Status = "idle"
            /\ cache[k].ActiveConnections = 0
            /\ cache[k].PodUID = pods[LastAddr(k[2]).TargetRef]

\* a reconcile met a changed UID on a record that had requests in flight
C8_Witness ==
    /\ last.op = "PruneByAddresses"
    /\ last.uidChanged # {}
    /\ last.before > 0
    /\ \A k \in last.uidChanged :
           k \in DOMAIN cache /\ cache[k].ActiveConnections = 0

\* ------------------------------------------------------------------ C9
\* C9: during a reconcile, every record that is in the snapshot, has status
\* busy and a timestamp older than the stuck-busy TTL is reset to idle with
\* active_connections = 0, whatever the shape of the endpoint address and
\* whatever the outcome of the UID lookup.
C9_StuckBusyReset ==
    last.op = "PruneByAddresses" =>
        \A k \in last.stuck :
            /\ k \in DOMAIN cache
            /\ cache[k].Status = "idle"
            /\ cache[k].ActiveConnections = 0

\* ------------------------------------------------------------------ C10
\* C10: when the release callback of a claimed replica never comes, repeated
\* reconciliation and the passing of time bring the replica's
\* active_connections back to 0 (or remove the record), whatever the ceiling
\* and the counter at the time of the leak.  A leak counts when the clock can
\* still pass the TTL after it.
C10_LeakRecovers ==
    \A key \in SetKeys :
        ( /\ key \in DOMAIN cache
          /\ cache[key].ActiveConnections > 0
          /\ cache[key].Timestamp + StuckBusyTTL < MaxTime )
            ~> (key \notin DOMAIN cache \/ cache[key].ActiveConnections = 0)

\* ------------------------------------------------------------------ C15
\* C15 as stated: for concurrent Set("busy") and Set("idle") commands on one
\* existing key starting from active_connections = 0, in every interleaving,
\* the final counter is >= 0 and <= max(0, busy commands - idle commands).
C15_Original ==
    CountKey \in DOMAIN cache =>
        /\ cache[CountKey].ActiveConnections >= 0
        /\ cache[CountKey].ActiveConnections <= Max(0, last.nBusy - last.nIdle)

\* C15 amended: in every interleaving the final counter is at least
\* max(0, busy commands - idle commands) and at most the number of busy
\* commands.
C15_CounterBounds ==
    CountKey \in DOMAIN cache =>
        /\ cache[CountKey].ActiveConnections >= Max(0, last.nBusy - last.nIdle)
        /\ cache[CountKey].ActiveConnections <= last.nBusy

\* two busy and two idle commands ran, the idle ones first: the counter is 2
C15_Witness ==
    /\ CountKey \in DOMAIN cache
    /\ last.nBusy = 2 /\ last.nIdle = 2
    /\ cache[CountKey].ActiveConnections = 2

C18_TryClaim ==
    [][ last'.op = "TryMarkPodBusy" =>
          /\ cache' = cache
          /\ last'.result =
                ~ ( \/ last'.key \notin DOMAIN cache
                    \/ cache[last'.key].Status = "busy"
                    \/ ( /\ cache[last'.key].MaxInflight # Nil
                         /\ cache[last'.key].ActiveConnections >=
                                Deref(cache[last'.key].MaxInflight) ) ) ]_vars

\* TryMarkPodBusy refused a record that is idle but at its ceiling
C18_Witness ==
    /\ last.op = "TryMarkPodBusy"
    /\ ~last.result
    /\ last.key \in DOMAIN cache
    /\ cache[last.key].Status = "idle"
    /\ cache[last.key].MaxInflight = Ptr(1)
    /\ cache[last.key].ActiveConnections = 1

\* ------------------------------------------------------------------ C19
\* C19: every record that a reconcile creates for a newly appeared endpoint
\* has status idle and active_connections = 0, for every ceiling value the
\* reconcile is called with.
C19_CreatedIdle ==
    last.op = "PruneByAddresses" =>
        \A k \in RecordsOf(cache, last.function) :
            cache[k].PodIP \in last.created =>
                /\ cache[k].Status = "idle"
                /\ cache[k].ActiveConnections = 0

\* ------------------------------------------------------------------ C20
\* C20: two consecutive PruneByAddresses calls with the same function and
\* snapshot, with the orchestrator unchanged and nothing in between, leave
\* the store after the second call as it was after the first, timestamps
\* aside.
C20_Idempotent ==
    last.op = "PruneByAddresses again" => StripTime(cache) = last.prev

\* the first of the two calls created or reset a record, and the store is not
\* empty after the second
C20_Witness ==
    /\ last.op = "PruneByAddresses again"
    /\ (last.created # {} \/ last.uidChanged # {})
    /\ DOMAIN cache # {}
    /\ StripTime(cache) = last.prev

\* ------------------------------------------------------------------ C11
\* C11: if every replica is at its ceiling when Select starts and one is
\* released by Set("idle") before the request's max-wait (100 ms) has
\* elapsed and stays free, the queued Select returns that replica's index
\* rather than an error; so no queued Select has returned an error by the
\* time a replica is released within its max-wait.
C11_ReleasedInTime ==
    \A p \in Procs :
        ~ ( /\ outcome[p].atCeiling
            /\ outcome[p].kind \in QueueErrors
            /\ outcome[p].missed
            /\ \A k \in RecordsOf(cache, QueueFunction) :
                   cache[k].Status = "idle" /\ cache[k].ActiveConnections = 0 )

\* ------------------------------------------------------------------ C12
\* C12: when no replica becomes free, a Select whose request was enqueued
\* fails with a timeout error, delivered not before the request has waited
\* max-wait (100 ms) and not after the outer deadline (150 ms).
C12_TimeoutWindow ==
    \A p \in Procs :
        ( /\ outcome[p].atCeiling
          /\ ~outcome[p].freed
          /\ outcome[p].kind \in QueueErrors )
        => /\ outcome[p].kind \in TimeoutErrors
           /\ outcome[p].at >= MaxWaitTime
           /\ outcome[p].at <= OuterDeadline

\* ------------------------------------------------------------------ C13
\* C13: the function's queue never holds more than 10 requests; when it
\* holds 10, a Select that reaches queueAndWaitForPod returns the queue-full
\* error in that same step, and the step changes neither the queue nor any
\* record of the store.
C13_QueueBounded ==
    /\ [](Len(queue) <= QueueCap)
    /\ [][ ( /\ last'.op = "queueAndWaitForPod"
             /\ last' # last
             /\ Len(queue) = QueueCap )
           => /\ last'.status = "request queue full"
              /\ queue' = queue
              /\ cache' = cache ]_vars

\* a caller was turned away from a queue holding 10 requests
C13_Witness ==
    /\ last.op = "queueAndWaitForPod"
    /\ last.status = "request queue full"
    /\ last.before = QueueCap
    /\ Len(queue) = QueueCap

\* ------------------------------------------------------------------ C14
\* the caller's request is in the queue or in the consumer's hands
Pending(p) ==
    \/ \E i \in 1..Len(queue) : queue[i].owner = p
    \/ consumer.pc = "work" /\ consumer.req.owner = p

\* C14: every Select call eventually returns an index or an error, also when
\* the consumer never runs; a caller never waits on the queue beyond the
\* outer deadline; and when the consumer is scheduled fairly every enqueued
\* request is eventually dequeued and answered.
C14_Terminates ==
    /\ \A p \in Procs : InSelect(p) ~> ~InSelect(p)
    /\ [](\A p \in Procs :
             sel[p].pc = "waiting" => clock - outcome[p].start <= OuterDeadline)
    /\ WF_vars(ConsumerStep) => \A p \in Procs : Pending(p) ~> ~Pending(p)

\* a caller gave up at the outer deadline while its request was still queued
C14_Witness ==
    \E p \in Procs :
        /\ outcome[p].kind = "request timeout after 150ms"
        /\ outcome[p].at = OuterDeadline
        /\ sel[p].pc = "idle"
        /\ Pending(p)

\* ------------------------------------------------------------------ C21
\* C21: PruneByAddresses for one function never deletes, creates or changes
\* a record of another function.
C21_OtherFunctionsKept ==
    [][ last'.op = "PruneByAddresses" =>
          \A k \in DOMAIN cache :
              cache[k].Function # last'.function =>
                  k \in DOMAIN cache' /\ cache'[k] = cache[k] ]_vars

\* ------------------------------------------------------------------ C22
\* the only record of the function in SpecOne
OneKey == createKey("p1", "ip1")

\* C22 as stated: a Select that returns index 0 for the one idle replica of a
\* function with ceiling 5, probed with 200, leaves the record busy with one
\* active connection.
C22_Original ==
    (sel[OneCaller].pc = "held" /\ deployments["f"] = 5
        /\ sel[OneCaller].answer = 200)
    => /\ sel[OneCaller].index = 0
       /\ OneKey \in DOMAIN cache
       /\ cache[OneKey].Status = "busy"
       /\ cache[OneKey].ActiveConnections = 1

\* C22, corrected: the Select returns index 0 and leaves the record with one
\* active connection, and the status is busy only when the ceiling is 1: with
\* ceiling 5 the record stays idle.
C22_SelectClaims ==
    (sel[OneCaller].pc = "held" /\ sel[OneCaller].answer = 200)
    => /\ sel[OneCaller].index = 0
       /\ OneKey \in DOMAIN cache
       /\ cache[OneKey].ActiveConnections = 1
       /\ cache[OneKey].MaxInflight = Ptr(deployments["f"])
       /\ (cache[OneKey].Status = "busy") = (deployments["f"] = 1)

C22_Witness ==
    /\ sel[OneCaller].pc = "held"
    /\ sel[OneCaller].answer = 200
    /\ deployments["f"] = 5
    /\ cache[OneKey].Status = "idle"
    /\ cache[OneKey].ActiveConnections = 1

\* ------------------------------------------------------------------ C23
\* C23: a Select called with an empty address list has no side effect: while
\* it runs no record is created, deleted or changed, and it does not go on to
\* queueAndWaitForPod.
C23_EmptyNoEffect ==
    [][ (sel[EmptyCaller].addresses = << >>
            /\ sel[EmptyCaller].pc \notin {"idle", "held"})
        => /\ cache' = cache
           /\ sel'[EmptyCaller].pc # "queued" ]_vars

\* ------------------------------------------------------------------ C24
\* C24: a Set called without a ceiling completes normally, on a present key
\* and on a missing one, and never leaves the record busy.
C24_NilCeilingSafe ==
    (last.op = "Set" /\ last.maxInflight = Nil)
    => /\ ~panicked
       /\ last.key \in DOMAIN cache
       /\ (last.status = "busy" => cache[last.key].Status # "busy")

\* ------------------------------------------------------------------ C25
\* the errors Select returns from queueAndWaitForPod
SelectErrors == QueueErrors \cup {"request queue full"}

\* C25: once Select has returned an error to a caller, the consumer holds no
\* replica whose counter it incremented for that caller's request, and no
\* index waits in the caller's ResponseChan.
C25_NoClaimAfterError ==
    \A p \in Procs :
        outcome[p].kind \in SelectErrors
        => /\ reply[p].Index < 0
           /\ ~ ( consumer.pc = "work" /\ consumer.req.owner = p
                  /\ sel[Consumer].pc = "held" /\ sel[Consumer].incremented )

\* ------------------------------------------------------------------ C30
\* C30: over its whole lifetime, re-enqueues included, a queued request gets
\* at most one reply, so a reply in the ResponseChan of capacity 1 is the
\* only one ever sent and no send of the consumer blocks, also after the
\* caller has left at the outer deadline.
C30_OneReply ==
    \A p \in Procs :
        /\ outcome[p].replies <= 1
        /\ reply[p] # NoReply => outcome[p].replies = 1

C30_Witness ==
    \E p \in Procs :
        /\ outcome[p].kind = "request timeout after 150ms"
        /\ outcome[p].replies = 1
        /\ reply[p] # NoReply

\* ------------------------------------------------------------------ C29
\* C29: the release of a request that Resolve routed, MarkPodIdle with the
\* pod name and IP of the returned URL, decrements the counter of the record
\* that Select incremented, also when the snapshot names the replica behind
\* the record's IP otherwise than the record does.
C29_ReleaseFindsRecord ==
    [][ LET key == createKey(sel[ResolveCaller].selected.PodName,
                             sel[ResolveCaller].selected.PodIP)
        IN  ( /\ sel[ResolveCaller].pc = "held"
              /\ sel'[ResolveCaller].pc = "idle"
              /\ sel[ResolveCaller].incremented
              /\ key \in DOMAIN cache )
            => /\ key \in DOMAIN cache'
               /\ cache'[key].ActiveConnections
                      = cache[key].ActiveConnections - 1 ]_vars

\* ------------------------------------------------------------------ C26
\* the mutex a thread is about to lock
Wanted(t) ==
    IF threads[t].pc = "lock" THEN PodLock(threads[t].call.key)
    ELSE getFunctionLock(threads[t].function)

\* the thread is at a lock.Lock() on a mutex that is held
Waiting(t) ==
    /\ threads[t].pc \in {"lock", "fnlock"}
    /\ podLocks[Wanted(t)] # NoThread

\* threads that wait forever: each waits for a mutex held by a thread of the
\* set or by a thread that has returned
WaitForever(S) ==
    /\ S # {}
    /\ \A t \in S :
           /\ Waiting(t)
           /\ \/ podLocks[Wanted(t)] \in S
              \/ threads[podLocks[Wanted(t)]].pc = "idle"

\* C26: no interleaving of Set, TryMarkPodBusy, setPodUID, PruneByAddresses
\* and GetByFunction reaches a state in which threads wait on record and
\* function mutexes forever.
C26_NoDeadlock == \A S \in SUBSET LockThreads : ~WaitForever(S)

\* a reconcile that holds its function's mutex waits for a record's mutex
\* that a Set of another thread holds
C26_Witness ==
    \E t, u \in LockThreads :
        /\ threads[t].op \in FunctionCalls
        /\ threads[t].pc = "lock"
        /\ podLocks[getFunctionLock(threads[t].function)] = t
        /\ podLocks[Wanted(t)] = u
        /\ u # t
        /\ threads[u].op = "Set"

\* ------------------------------------------------------------------ C27
\* C27: no thread holds a function's mutex and a record's mutex at once.
C27_NoPodLockUnderFunctionLock ==
    \A t \in LockThreads :
        ~ ( /\ \E f \in Functions : podLocks[getFunctionLock(f)] = t
            /\ \E k \in LockRecords : podLocks[PodLock(k)] = t )

\* ------------------------------------------------------------------ C28
\* C28: calls on one key are serialized by the record's mutex: the Set of a
\* thread stores the value computed from the record as it is when it stores,
\* so each Set("busy") on an existing record raises the counter by exactly
\* one, whatever the other threads do, and the value is in the store before
\* the Set returns.
C28_Serialized ==
    [][ \A t \in LockThreads :
          LET call == threads[t].call IN
          ( /\ threads[t].pc = "store" /\ threads'[t].pc = "unlock"
            /\ call.name = "Set"
            /\ call.key \in DOMAIN cache )
          => /\ cache'[call.key] = SetValue(cache, call.key[1], call.status,
                                            call.key[2], call.function,
                                            call.maxInflight)
             /\ call.status = "busy"
                  => cache'[call.key].ActiveConnections
                         = cache[call.key].ActiveConnections + 1 ]_vars

\* two threads are in Set("busy") on the same existing record, one about to
\* store and one waiting for the mutex
C28_Witness ==
    \E t, u \in LockThreads :
        /\ t # u
        /\ threads[t].call.name = "Set" /\ threads[u].call.name = "Set"
        /\ threads[t].call.status = "busy" /\ threads[u].call.status = "busy"
        /\ threads[t].call.key = threads[u].call.key
        /\ threads[t].call.key \in DOMAIN cache
        /\ threads[t].op = "Set" /\ threads[u].op = "Set"
        /\ threads[t].pc = "unlock"
        /\ cache[threads[t].call.key].ActiveConnections = 1
        /\ threads[u].pc = "lock"

FailedAttemptEnds ==
    /\ consumer.pc = "work"
    /\ sel[Consumer].pc = "loop"
    /\ consumer'.pc = "recv"

\* the three ways a failed attempt ends
Requeued ==
    /\ queue' = Append(queue, [consumer.req EXCEPT !.RetryCount = @ + 1])
    /\ reply' = reply
    /\ outcome' = outcome
RepliedQueueFull ==
    /\ queue' = queue
    /\ reply'[consumer.req.owner].Error = "queue full, cannot requeue"
    /\ outcome'[consumer.req.owner].replies
           = outcome[consumer.req.owner].replies + 1
RepliedNoIdlePods ==
    /\ queue' = queue
    /\ reply'[consumer.req.owner].Error
           \in {"max retries exceeded", "no idle pods became available"}
    /\ outcome'[consumer.req.owner].replies
           = outcome[consumer.req.owner].replies + 1

Count(b) == IF b THEN 1 ELSE 0

C32_OneQueueOneConsumer ==
    /\ requestQueue.created <= 1
    /\ requestQueue.spawned <= 1
    /\ requestQueue.exists <=> (requestQueue.created = 1 /\ requestQueue.spawned = 1)
    /\ (requestQueue.spawned = 1) <=> (consumer.pc # "off")
    /\ (queue # << >> \/ \E p \in Procs : sel[p].pc \in {"send", "waiting"})
           => requestQueue.spawned = 1
    /\ \A p \in Procs : reply[p] # NoReply => requestQueue.spawned = 1

\* both callers' first requests were taken from the queue by the one consumer
C32_Witness ==
    /\ requestQueue.created = 1
    /\ requestQueue.spawned = 1
    /\ \A p \in Procs : reply[p] # NoReply
    /\ queue = << >>

\* ------------------------------------------------------------------ C34
\* the consumer takes a request off the queue
Dequeues == consumer.pc = "recv" /\ queue # << >> /\ queue' = Tail(queue)

\* the request at the head of the queue has waited longer than MaxWaitTime
HeadOverdue == queue # << >> /\ clock - Head(queue).StartTime > MaxWaitTime

\* C34: when the consumer dequeues a request whose max-wait has elapsed, it
\* sends the timeout error on the request's ResponseChan, once, and the
\* dequeue starts no attempt: the store, the ceiling cache and the
\* consumer's own Select state are as they were, and the consumer is back at
\* its receive.
C34_OverdueAnsweredUntouched ==
    [][ (Dequeues /\ HeadOverdue) =>
            /\ reply'[Head(queue).owner] = [Index |-> -1, Error |-> "request timeout"]
            /\ outcome'[Head(queue).owner].replies
                   = outcome[Head(queue).owner].replies + 1
            /\ cache' = cache
            /\ maxInflightCache' = maxInflightCache
            /\ sel'[Consumer] = sel[Consumer]
            /\ consumer' = consumer ]_vars

\* an overdue request was answered with the timeout, with a record in the store
C34_Witness ==
    /\ \E p \in Procs : reply[p].Error = "request timeout"
    /\ consumer.pc = "recv"
    /\ cache # << >>

\* ------------------------------------------------------------------ C35
\* C35: MarkPodBusy and MarkPodIdle never create a record: the Set that ends
\* the call adds no key to the store, also when a reconcile deleted the
\* record after the call's Get.
C35_MarkNeverCreates ==
    [][ \A p \in Procs :
          (sel[p].pc = "set" /\ sel'[p].pc = "held")
              => DOMAIN cache' \subseteq DOMAIN cache ]_vars

\* ------------------------------------------------------------------ C36
\* C36: while the replica keeps its orchestrator UID, whatever Set calls and
\* lookup failures happen in between, a reconcile zeroes the counter of a
\* record of the snapshot that has requests in flight only when the record
\* is stuck busy past the TTL.
C36_ResetOnlyOnRealChange ==
    [][ last'.op = "PruneByAddresses" =>
          \A key \in DOMAIN cache \cap DOMAIN cache' :
              ( /\ cache[key].ActiveConnections > 0
                /\ cache'[key].ActiveConnections = 0 )
                  => StuckBusy(cache[key]) ]_vars

\* ------------------------------------------------------------------ C37
\* C37: Set("busy") and Set("idle") on a record that exists, as MarkPodBusy
\* and MarkPodIdle call it, leave the record's stored PodUID as it was.
C37_SetKeepsPodUID ==
    [][ last'.op \in {"MarkPodBusy", "MarkPodIdle"} =>
          \A key \in DOMAIN cache \cap DOMAIN cache' :
              cache'[key].PodUID = cache[key].PodUID ]_vars

\* ------------------------------------------------------------------ C38
\* C38: the listing of a function returns no record more than once, and only
\* records that are in the store, whatever the number of endpoint addresses.
C38_ListedOnce ==
    [][ last'.op = "GetPodStatusByFunction" =>
          \A k \in DOMAIN last'.listing :
              /\ k \in RecordsOf(cache', "f")
              /\ last'.listing[k] = 1 ]_vars

\* ------------------------------------------------------------------ C39
\* C39: once a lookup of the function's ceiling has completed, a later lookup
\* for the function does not ask the orchestrator for the deployment and
\* returns what the earlier lookup returned, the unbounded sentinel included.
C39_LookupCachedForGood ==
    [][ ( /\ last'.op = "getFunctionMaxInflight"
          /\ \E q \in Procs : sel[q].function = last'.function )
            => /\ last'.result = FALSE
               /\ \A q \in Procs :
                      sel[q].function = last'.function
                          => last'.before = sel[q].max_inflight ]_vars

\* ------------------------------------------------------------------ C40
\* the URL that Resolve returns to the caller whose Select returned an index
URLOf(p) == ResolveURL(sel[p].addresses, sel[p].index, sel[p].function, p)

\* C40: whenever Resolve succeeds, the URL has the four query parameters, with
\* the IP and the request identifier of the call and a pod name, for an
\* address with a TargetRef and for one without.
C40_URLNamesReplica ==
    \A p \in Procs :
        sel[p].pc = "held" =>
            /\ DOMAIN URLOf(p).Query = QueryKeys
            /\ URLOf(p).Query["podIP"] = sel[p].selected.PodIP
            /\ URLOf(p).Query["podName"] # ""
            /\ URLOf(p).Query["OpenFaaS-Internal-ID"] = p

====
